---- MODULE Spec2Model ----
(***************************************************************************)
(* Model of the search engine: the Engine facade (add / search), the      *)
(* BinaryFileStorage behind it and the Hash posting store it keeps in the *)
(* word-dic file.  The word-dic file is modelled byte by byte; the page   *)
(* files and the url files of BinaryFileStorage are modelled as maps.     *)
(*                                                                         *)
(* Strings are sequences of character codes (UTF-16 code units below      *)
(* 256), buffers are sequences of bytes.  File offsets are 0-based as in  *)
(* the source; byte o of a file is element o + 1 of its sequence.         *)
(***************************************************************************)
EXTENDS Integers, Sequences, FiniteSets, TLC

(***************************************************************************)
(* Bounds of the model.                                                    *)
(***************************************************************************)
\* ranks offered to add are 0 .. MaxRank
MaxRank == 3
\* at most MaxAdds calls of add are explored
MaxAdds == 3
\* BinaryFileStorageProps.uniqueWords of the modelled storage
UniqueWords == 8

(***************************************************************************)
(* Generic helpers.                                                        *)
(***************************************************************************)
\* op applied to v: names a value that is computed once and used often
With(v, op(_)) == op(v)

\* the sequence f as an explicit tuple, every element computed once
Tuple(f) == SubSeq(f, 1, Len(f))

Range(s) == {s[i] : i \in DOMAIN s}

SetMax(S) == CHOOSE x \in S : \A y \in S : y <= x

SetMin(S) == CHOOSE x \in S : \A y \in S : x <= y

RECURSIVE SumSeq(_)
SumSeq(s) == IF s = <<>> THEN 0 ELSE Head(s) + SumSeq(Tail(s))

RECURSIVE Flatten(_)
Flatten(ss) == IF ss = <<>> THEN <<>> ELSE Head(ss) \o Flatten(Tail(ss))

\* SubSeq makes the sequence an explicit tuple
Zeros(n) == SubSeq([i \in 1..n |-> 0], 1, n)

\* lexicographic "a <= b" on sequences of numbers (string / buffer order)
RECURSIVE LexLeq(_, _)
LexLeq(a, b) ==
  IF a = <<>> THEN TRUE
  ELSE IF b = <<>> THEN FALSE
  ELSE IF Head(a) # Head(b) THEN Head(a) < Head(b)
  ELSE LexLeq(Tail(a), Tail(b))

RECURSIVE BitXor(_, _)
BitXor(x, y) ==
  IF x = 0 THEN y
  ELSE IF y = 0 THEN x
  ELSE ((x + y) % 2) + 2 * BitXor(x \div 2, y \div 2)

(***************************************************************************)
(* Byte codec.                                                             *)
(***************************************************************************)
\* Hash.toBEInt32 / BinaryFileStorage.toBEInt32: the four bytes of num,
\* most significant first (Uint8Array keeps the low 8 bits of each lane)
toBEInt32(num) ==
  << (num \div 16777216) % 256, (num \div 65536) % 256,
     (num \div 256) % 256, num % 256 >>

\* Buffer.readUInt32BE(offset)
readUInt32BE(buf, offset) ==
  buf[offset + 1] * 16777216 + buf[offset + 2] * 65536
    + buf[offset + 3] * 256 + buf[offset + 4]

\* Buffer.from(str, 'utf-8') for code units below 2048
RECURSIVE utf8Encode(_)
utf8Encode(str) ==
  IF str = <<>> THEN <<>>
  ELSE LET c == Head(str)
       IN (IF c < 128 THEN <<c>> ELSE <<192 + (c \div 64), 128 + (c % 64)>>)
            \o utf8Encode(Tail(str))

\* Buffer.toString() (utf-8 decoding): one- and two-byte sequences are
\* decoded, every other byte above 127 becomes U+FFFD.  Exact for buffers
\* holding no three- or four-byte sequence (4-byte doc-ids below 0xE00000).
RECURSIVE utf8Decode(_)
utf8Decode(buf) ==
  IF buf = <<>> THEN <<>>
  ELSE LET b == Head(buf)
       IN IF b < 128 THEN <<b>> \o utf8Decode(Tail(buf))
          ELSE IF b >= 194 /\ b <= 223 /\ Len(buf) >= 2
                  /\ buf[2] >= 128 /\ buf[2] <= 191
               THEN <<(b - 192) * 64 + (buf[2] - 128)>>
                      \o utf8Decode(Tail(Tail(buf)))
               ELSE <<65533>> \o utf8Decode(Tail(buf))

\* "buf <= buffer" on two Buffer objects: both operands are converted with
\* toString() and compared as strings
bufferLeq(buf, buffer) == LexLeq(utf8Decode(buf), utf8Decode(buffer))

(***************************************************************************)
(* The word-dic file.  A file that does not exist yet is <<>>.            *)
(***************************************************************************)
\* fs.read(fd, buf, 0, size, position) into a zero-filled buffer
readFile(file, position, size) ==
  SubSeq([i \in 1..size |-> IF position + i <= Len(file) THEN file[position + i] ELSE 0],
         1, size)

\* fs.write(fd, data, ..., position); a gap past the end reads as zeros
writeFile(file, position, data) ==
  LET end == IF position + Len(data) > Len(file)
             THEN position + Len(data) ELSE Len(file)
  IN SubSeq([i \in 1..end |->
               IF i > position /\ i <= position + Len(data) THEN data[i - position]
               ELSE IF i <= Len(file) THEN file[i] ELSE 0], 1, end)

(***************************************************************************)
(* Hash: file based hash table with a linked list per key.                 *)
(***************************************************************************)
headerSize == 4
\* new Hash({keySize: props.uniqueWords, hashRows: props.uniqueWords, nodeSize: 4})
keySize == UniqueWords
hashRows == UniqueWords
nodeSize == 4 + 4
hashRowSize == keySize + 8

\* Hash.getFileDescriptor: the file is created, with the header pointing at
\* the first node slot and the hash rows zeroed, when it does not exist
getFileDescriptor(file) ==
  IF file = <<>>
  THEN toBEInt32(headerSize + hashRows * hashRowSize)
         \o Zeros(headerSize + hashRows * hashRowSize - 4)
  ELSE file

getNode(file, blockOffset) == readFile(file, blockOffset, nodeSize)

getFreeNodeOffset(file) == readUInt32BE(readFile(file, 0, 4), 0)

writeFreeNodeOffset(file, nodeOffset) == writeFile(file, 0, toBEInt32(nodeOffset))

\* Hash.fnv32a: hval ^= charCode; hval += (hval<<1)+(hval<<4)+(hval<<7)+
\* (hval<<8)+(hval<<24), i.e. hval * (2^24 + 403) modulo 2^32.  The 32-bit
\* value is kept as two 16-bit halves <<hi, lo>>.
RECURSIVE fnv32aFrom(_, _)
fnv32aFrom(hval, str) ==
  IF str = <<>> THEN hval
  ELSE LET hi == hval[1]
           lo == BitXor(hval[2], Head(str))
           lo403 == lo * 403
       IN fnv32aFrom(<< (hi * 403 + (lo403 \div 65536) + (lo % 256) * 256) % 65536,
                        lo403 % 65536 >>, Tail(str))

\* FNV1_32A_INIT = 0x811c9dc5
fnv32a(str) == fnv32aFrom(<<33052, 40389>>, str)

getHashIndexFromKey(key) ==
  LET hash == fnv32a(key)
  IN ((hash[1] % hashRows) * (65536 % hashRows) + hash[2]) % hashRows

getHashOffset(hashIndex) == headerSize + hashIndex * hashRowSize

getHashEntryByIndex(file, hashIndex) ==
  readFile(file, headerSize + hashIndex * hashRowSize, hashRowSize)

\* Hash.hashEntryContainsData: the first keyBuf.length + 4 bytes of the row
\* are compared with the key followed by four zero bytes
hashEntryContainsData(hashEntry, key) ==
  LET keyBuf == utf8Encode(key)
      end == IF Len(keyBuf) + 4 < Len(hashEntry) THEN Len(keyBuf) + 4 ELSE Len(hashEntry)
  IN SubSeq(hashEntry, 1, end) = keyBuf \o toBEInt32(0)

\* Hash.getHashEntryMatchingKey.  The probe step is (collisions + 1) ** 2
\* with collisions never incremented, i.e. always 1.  The do/while loop has
\* no exit when every row holds another key: diverges is then TRUE (after
\* hashRows probes every row has been seen).  probed lists the rows read, in
\* the order they were read.
RECURSIVE probeHashEntry(_, _, _, _)
probeHashEntry(file, key, hashIndex, probesLeft) ==
  LET collisions == 0
      hashEntry == getHashEntryByIndex(file, hashIndex)
      headOffset == readUInt32BE(hashEntry, keySize)
      tailOffset == readUInt32BE(hashEntry, keySize + 4)
  IN IF headOffset > 0 /\ ~hashEntryContainsData(hashEntry, key)
     THEN IF probesLeft = 0
          THEN [diverges |-> TRUE, hashIndex |-> hashIndex, headOffset |-> 0, tailOffset |-> 0,
                probed |-> <<hashIndex>>]
          ELSE With(probeHashEntry(file, key,
                                   (hashIndex + (collisions + 1) * (collisions + 1)) % hashRows,
                                   probesLeft - 1),
                    LAMBDA found : [found EXCEPT !.probed = <<hashIndex>> \o @])
     ELSE [diverges |-> FALSE, hashIndex |-> hashIndex, headOffset |-> headOffset,
           tailOffset |-> IF tailOffset = 0 THEN headOffset ELSE tailOffset,
           probed |-> <<hashIndex>>]

getHashEntryMatchingKey(file, key) ==
  probeHashEntry(file, key, getHashIndexFromKey(key), hashRows)

\* Hash.has / Hash.hashEntryExist
has(file, key) == getHashEntryMatchingKey(file, key).headOffset > 0

\* Hash.writeNode: data followed by the 4-byte offset of the next node
writeNode(file, offset, data, nextOffset) ==
  writeFile(file, offset, data \o toBEInt32(nextOffset))

\* Hash.set: returns the file and the error thrown ("none" when it returns)
set(file0, key, data) ==
  With(getFileDescriptor(file0), LAMBDA file :
  With(getHashEntryMatchingKey(file, key), LAMBDA entry :
  With(IF entry.headOffset > 0 THEN entry.headOffset ELSE getFreeNodeOffset(file),
       LAMBDA headOffset :
  With(IF entry.headOffset > 0 THEN file
       ELSE writeFreeNodeOffset(file, headOffset + nodeSize), LAMBDA file1 :
    LET keyBuf == utf8Encode(key)
        hashBuf == keyBuf \o Zeros(keySize - Len(keyBuf))
                     \o toBEInt32(headOffset) \o toBEInt32(headOffset)
        buf == data \o Zeros(nodeSize - Len(data))
    IN IF Len(keyBuf) > keySize THEN [file |-> file1, error |-> "KeyTooLarge"]
       ELSE With(writeFile(file1, getHashOffset(entry.hashIndex), hashBuf), LAMBDA file2 :
              IF Len(data) > nodeSize - 4 THEN [file |-> file2, error |-> "DataTooLarge"]
              ELSE [file |-> writeNode(file2, headOffset, buf, 0), error |-> "none"])))))

\* Hash.getIterator: the nodes of the list of key from its head, each with
\* its payload, offset and index; the node whose next is 0 is left out
\* unless includeTrailingEmpyNode
RECURSIVE iterateFrom(_, _, _, _, _)
iterateFrom(file, headOffset, index, includeTrailingEmpyNode, nodesLeft) ==
  LET block == getNode(file, headOffset)
      nextNodeOffset == readUInt32BE(block, nodeSize - 4)
      item == [buffer |-> SubSeq(block, 1, nodeSize - 4), offset |-> headOffset,
               index |-> index]
      yielded == IF includeTrailingEmpyNode \/ nextNodeOffset # 0 THEN <<item>> ELSE <<>>
  IN IF nextNodeOffset > 0 /\ nodesLeft > 0
     THEN yielded \o iterateFrom(file, nextNodeOffset, index + 1,
                                 includeTrailingEmpyNode, nodesLeft - 1)
     ELSE yielded

getIterator(file, key, includeTrailingEmpyNode) ==
  iterateFrom(file, getHashEntryMatchingKey(file, key).headOffset, 0,
              includeTrailingEmpyNode, Len(file) \div nodeSize)

\* Hash.findIndexToInsertSortedAt
findIndexToInsertSortedAt(file, key, buf) ==
  With(getIterator(file, key, TRUE), LAMBDA items :
  With({k \in DOMAIN items : bufferLeq(buf, items[k].buffer)}, LAMBDA hits :
    IF hits # {} THEN items[SetMin(hits)].index
    ELSE IF items = <<>> THEN 1
    ELSE items[Len(items)].index + 1))

\* Hash.getAndIncreateFreeNodeOffset
getAndIncreateFreeNodeOffset(file) ==
  With(getFreeNodeOffset(file), LAMBDA offset :
    [file |-> writeFreeNodeOffset(file, offset + nodeSize), offset |-> offset])

\* Hash.writeHashEntryHeadOffset
writeHashEntryHeadOffset(file, key, headOffset) ==
  writeFile(file, getHashOffset(getHashEntryMatchingKey(file, key).hashIndex) + keySize,
            toBEInt32(headOffset))

\* Hash.insertFirst
insertFirst(file, key, buf) ==
  With(getHashEntryMatchingKey(file, key).headOffset, LAMBDA headOffset :
  With(getAndIncreateFreeNodeOffset(file), LAMBDA alloc :
    writeHashEntryHeadOffset(writeNode(alloc.file, alloc.offset, buf, headOffset),
                             key, alloc.offset)))

\* an insertAt that ignores the index
insertAtAlwaysFirst(file, key, index, buf) == insertFirst(file, key, buf)

\* Hash.insertAt: index 0 goes to insertFirst at once; otherwise a node is
\* allocated, the loop over getIterator(key, true) moves previous / current
\* forward once for every node of index 1 .. index, and without a previous
\* node insertFirst allocates again.  The head node was read before the
\* allocation (headData).
insertAt(file, key, index, buf) ==
  With(getNode(file, getHashEntryMatchingKey(file, key).headOffset), LAMBDA headData :
  With(getAndIncreateFreeNodeOffset(file), LAMBDA alloc :
  With(getIterator(alloc.file, key, TRUE), LAMBDA items :
    LET moved == IF Len(items) - 1 < index THEN Len(items) - 1 ELSE index
        previous == IF moved = 1
                    THEN [items[1] EXCEPT !.buffer = SubSeq(headData, 1, nodeSize - 4)]
                    ELSE items[moved]
        current == items[moved + 1]
    IN IF index = 0 \/ moved < 1
       THEN insertFirst(IF index = 0 THEN file ELSE alloc.file, key, buf)
       ELSE writeNode(writeNode(alloc.file, alloc.offset, buf, current.offset),
                      previous.offset, previous.buffer, alloc.offset))))

\* an append that leaves the tail field of the hash row alone
appendKeepingTail(file0, key, buf) ==
  With(getFileDescriptor(file0), LAMBDA file :
  With(getHashEntryMatchingKey(file, key), LAMBDA entry :
  With(getFreeNodeOffset(file), LAMBDA nextNodeOffset :
    [file |-> writeNode(writeFreeNodeOffset(file, nextNodeOffset + nodeSize),
                        entry.tailOffset, buf, nextNodeOffset),
     error |-> "none"])))

\* an append that puts the payload in front of the list
appendAsFirst(file0, key, buf) ==
  [file |-> insertFirst(getFileDescriptor(file0), key, buf), error |-> "none"]

\* Hash.appendIterator(key), advanced once and its write function called
\* with buf: the payload goes into the node the tail field names, which then
\* points at a freshly reserved node, and the tail field moves on to it.
\* Returns the file and the error thrown ("none" when it returns).
append(file0, key, buf) ==
  With(getFileDescriptor(file0), LAMBDA file :
  With(getHashEntryMatchingKey(file, key), LAMBDA entry :
    IF entry.tailOffset < headerSize + hashRows * hashRowSize
    THEN [file |-> file, error |-> "TailInIndexArea"]
    ELSE IF Len(buf) > nodeSize - 4
    THEN [file |-> file, error |-> "DataTooLarge"]
    ELSE With(getFreeNodeOffset(file), LAMBDA nextNodeOffset :
           [file |-> writeFile(
                       writeNode(writeFreeNodeOffset(file, nextNodeOffset + nodeSize),
                                 entry.tailOffset, buf, nextNodeOffset),
                       getHashOffset(entry.hashIndex) + keySize + 4,
                       toBEInt32(nextNodeOffset)),
            error |-> "none"])))

(***************************************************************************)
(* BinaryFileStorage.  pages models the files under /pages (pageId ->     *)
(* Page), urls the files under /urls (url -> pageId); an optional value   *)
(* is <<>> (null / undefined) or <<v>>.                                    *)
(***************************************************************************)
getPage(pgs, pageId) == IF pageId \in DOMAIN pgs THEN <<pgs[pageId]>> ELSE <<>>

initPage(pgs, pageId, page) ==
  [p \in DOMAIN pgs \cup {pageId} |-> IF p = pageId THEN page ELSE pgs[p]]

getUrlToPage(urls, url) == IF url \in DOMAIN urls THEN <<urls[url]>> ELSE <<>>

setUrlToPage(urls, url, pageId) ==
  [u \in DOMAIN urls \cup {url} |-> IF u = url THEN pageId ELSE urls[u]]

\* BinaryFileStorage.getSeed: -1 stands for the thrown Error('Rank <= 0')
RECURSIVE getSeed(_, _)
getSeed(pgs, rank) ==
  IF getPage(pgs, rank) # <<>> THEN getSeed(pgs, rank - 1)
  ELSE IF rank < 0 THEN -1
  ELSE rank

\* the do/while of getWordIterator over one node buffer
RECURSIVE pageIdsOfBuffer(_, _)
pageIdsOfBuffer(buffer, i) ==
  LET pageId == readUInt32BE(buffer, i)
  IN (IF pageId > 0 THEN <<pageId>> ELSE <<>>)
       \o (IF pageId > 0 /\ i + 4 < Len(buffer)
           THEN pageIdsOfBuffer(buffer, i + 4) ELSE <<>>)

\* BinaryFileStorage.getWordIterator: the page ids the iterator yields
getWordIterator(file0, word) ==
  With(getFileDescriptor(file0), LAMBDA file :
  With(getIterator(file, word, FALSE), LAMBDA items :
    IF ~has(file, word) THEN <<>>
    ELSE Flatten(Tuple([n \in DOMAIN items |-> pageIdsOfBuffer(items[n].buffer, 0)]))))

\* BinaryFileStorage.initWord
initWord(file0, word) ==
  With(getFileDescriptor(file0), LAMBDA file :
    IF has(file, word) THEN [file |-> file, error |-> "none"]
    ELSE set(file, word, <<>>))

\* BinaryFileStorage.addWord
addWord(file, pgs, word, pageId) ==
  IF getPage(pgs, pageId) # <<>> THEN [file |-> file, error |-> "PageIdTaken"]
  ELSE With(toBEInt32(pageId), LAMBDA buf :
         [file |-> insertAt(file, word, findIndexToInsertSortedAt(file, word, buf), buf),
          error |-> "none"])

(***************************************************************************)
(* Engine: tokenizer.                                                      *)
(***************************************************************************)
Quote == 34
Space == 32

\* \s for code units below 256
isSpace(c) == c \in {9, 10, 11, 12, 13, 32, 160}

\* [\w\d] followed by the letters of the character classes of toWords
isLetterOrDigit(c) ==
  \/ c \in 48..57 \/ c \in 65..90 \/ c \in 97..122 \/ c = 95
  \/ c \in {229, 228, 246}

\* String.toLowerCase for one code unit below 256
lowerChar(c) ==
  IF c \in 65..90 \/ (c \in 192..222 /\ c # 215) THEN c + 32 ELSE c

toLowerCase(word) == Tuple([i \in DOMAIN word |-> lowerChar(word[i])])

\* text.split(/[\s]/g): every white-space character ends a piece
RECURSIVE splitFrom(_, _)
splitFrom(text, piece) ==
  IF text = <<>> THEN <<piece>>
  ELSE IF isSpace(Head(text)) THEN <<piece>> \o splitFrom(Tail(text), <<>>)
  ELSE splitFrom(Tail(text), Append(piece, Head(text)))

\* the reduce of toWords: a quote mark records how many words precede it
RECURSIVE collectWords(_, _, _)
collectWords(pieces, lowerCase, av) ==
  IF pieces = <<>> THEN av
  ELSE collectWords(Tail(pieces), lowerCase,
         IF Head(pieces) = <<Quote>>
         THEN [av EXCEPT !.quotes = Append(@, Len(av.words))]
         ELSE [av EXCEPT !.words =
                 Append(@, IF lowerCase THEN toLowerCase(Head(pieces)) ELSE Head(pieces))])

\* Engine.toWords (removeStopWords is never passed by a caller)
toWords(text, lowerCase) ==
  LET keep(c) == isLetterOrDigit(c) \/ c = Quote \/ isSpace(c)
      wordChar(c) == isLetterOrDigit(c) \/ c = Quote
      isOkWord(word) == word # <<>>
  IN With(Tuple([i \in DOMAIN text |-> IF keep(text[i]) THEN text[i] ELSE Space]),
          LAMBDA replaced :
     With(Flatten(Tuple([i \in DOMAIN replaced |->
                  IF replaced[i] = Quote THEN <<Space, Quote, Space>> ELSE <<replaced[i]>>])),
          LAMBDA quoted :
     With(splitFrom(quoted, <<>>), LAMBDA pieces :
     With(Tuple([i \in DOMAIN pieces |-> SelectSeq(pieces[i], wordChar)]), LAMBDA stripped :
       collectWords(SelectSeq(stripped, isOkWord), lowerCase,
                    [words |-> <<>>, quotes |-> <<>>])))))

\* an engine that treats no word as a stop-word
isStopWordNever(stops, word) == FALSE

\* Engine.isStopWord
isStopWord(stops, word) == Len(word) < 2 \/ word \in stops

(***************************************************************************)
(* Engine: sorted-merge intersection and phrase adjacency.                 *)
(***************************************************************************)
\* Engine.isAllEqual: sumArray(vals) / vals.length == vals[0]; the quotient
\* of these small integers equals vals[0] exactly when the sum is
\* vals[0] * vals.length
isAllEqual(vals) == SumSeq(vals) = vals[1] * Len(vals)

\* the while loop of Engine.intersect.  arrs are the values the iterators
\* yield, drawn[i] how many values iterator i has yielded, shouldBeAdded
\* maps a value to "add", "skip" or "throw" (the callback's outcome).
RECURSIVE intersectLoop(_, _, _, _, _, _)
intersectLoop(arrs, values, drawn, result, maxCount, shouldBeAdded) ==
  IF Len(result) >= maxCount THEN [result |-> result, error |-> FALSE]
  ELSE IF isAllEqual(values) /\ shouldBeAdded[values[1]] = "throw"
  THEN [result |-> result, error |-> TRUE]
  ELSE
    LET result1 == IF isAllEqual(values) /\ shouldBeAdded[values[1]] = "add"
                   THEN Append(result, values[1]) ELSE result
        minValue == SetMin(Range(values))
        arrIndexWithSmallestValue == SetMin({i \in DOMAIN values : values[i] = minValue})
    IN IF drawn[arrIndexWithSmallestValue] >= Len(arrs[arrIndexWithSmallestValue])
       THEN [result |-> result1, error |-> FALSE]
       ELSE intersectLoop(arrs,
              [values EXCEPT ![arrIndexWithSmallestValue] =
                 arrs[arrIndexWithSmallestValue][drawn[arrIndexWithSmallestValue] + 1]],
              [drawn EXCEPT ![arrIndexWithSmallestValue] = @ + 1],
              result1, maxCount, shouldBeAdded)

\* an intersection that leaves exhausted iterators out instead of ending
intersectIgnoringEmpty(arrs, maxCount, shouldBeAdded) ==
  With(SelectSeq(arrs, LAMBDA arr : arr # <<>>), LAMBDA full :
    IF Len(full) = 0 THEN [result |-> <<>>, error |-> FALSE]
    ELSE IF Len(full) = 1
    THEN [result |-> SubSeq(full[1], 1, IF Len(full[1]) < maxCount THEN Len(full[1]) ELSE maxCount),
          error |-> FALSE]
    ELSE intersectLoop(full, Tuple([i \in DOMAIN full |-> full[i][1]]),
                       Tuple([i \in DOMAIN full |-> 1]), <<>>, maxCount, shouldBeAdded))

\* Engine.intersect
intersect(arrs, maxCount, shouldBeAdded) ==
  IF Len(arrs) = 0 THEN [result |-> <<>>, error |-> FALSE]
  ELSE IF Len(arrs) = 1
  THEN [result |-> SubSeq(arrs[1], 1, IF Len(arrs[1]) < maxCount THEN Len(arrs[1]) ELSE maxCount),
        error |-> FALSE]
  ELSE IF \E i \in DOMAIN arrs : arrs[i] = <<>> THEN [result |-> <<>>, error |-> FALSE]
  ELSE intersectLoop(arrs, Tuple([i \in DOMAIN arrs |-> arrs[i][1]]),
                     Tuple([i \in DOMAIN arrs |-> 1]), <<>>, maxCount, shouldBeAdded)

\* the values of all iterators, each accepted (no shouldBeAdded callback)
alwaysAdd(arrs) == [v \in UNION {Range(arrs[i]) : i \in DOMAIN arrs} |-> "add"]

\* page.index[word] || [] (for the words of the queries explored, none of
\* which is an inherited name)
indicesForWord(page, word) ==
  IF toLowerCase(word) \in DOMAIN page.index THEN page.index[toLowerCase(word)] ELSE <<>>

\* Engine.adjecentWordIndicesIntersection
adjecentWordIndicesIntersection(indexArrs) ==
  With(Tuple([i \in DOMAIN indexArrs |->
                Tuple([n \in DOMAIN indexArrs[i] |-> indexArrs[i][n] - (i - 1)])]),
       LAMBDA indicesEqualized :
    intersect(indicesEqualized, 1, alwaysAdd(indicesEqualized)).result)

\* Engine.isAdjecentWords / Engine.isWordIndicesAdjecent
isAdjecentWords(words, page) ==
  Len(adjecentWordIndicesIntersection(
        Tuple([i \in DOMAIN words |-> indicesForWord(page, words[i])]))) > 0

\* words.slice(quotes[i], quotes[i + 1]) for the i-th pair of quote marks
\* (i = 1, 2, ...); the end is the end of words when quotes[i + 1] is missing
quotedWords(words, quotes, i) ==
  LET start == quotes[2 * i - 1]
      end == IF 2 * i <= Len(quotes) THEN quotes[2 * i] ELSE Len(words)
  IN SubSeq(words, start + 1, end)

quotePairs(quotes) == 1..((Len(quotes) + 1) \div 2)

\* an acceptance test that accepts every page
isQuoteOnPageAlways(pgs, words, quotes, pageId) == "add"

\* isQuoteOnPage of Engine.search: "add" when at least one quoted range is
\* adjacent on the page, "throw" when page.index is read on a missing page
isQuoteOnPage(pgs, words, quotes, pageId) ==
  IF Len(quotes) = 0 THEN "add"
  ELSE IF getPage(pgs, pageId) = <<>>
  THEN IF \E i \in quotePairs(quotes) : quotedWords(words, quotes, i) # <<>>
       THEN "throw" ELSE "skip"
  ELSE IF \E i \in quotePairs(quotes) :
            isAdjecentWords(quotedWords(words, quotes, i), pgs[pageId])
       THEN "add" ELSE "skip"

\* an engine that keeps repeated page ids
uniqueArrKeepAll(arr) == arr

\* Engine.uniqueArr
RECURSIVE uniqueArr(_)
uniqueArr(arr) ==
  IF arr = <<>> THEN <<>>
  ELSE LET front == uniqueArr(SubSeq(arr, 1, Len(arr) - 1))
       IN IF arr[Len(arr)] \in Range(front) THEN front ELSE Append(front, arr[Len(arr)])

(***************************************************************************)
(* Engine: ranking.  rankWeights is <<>> (not configured) or <<weights>>. *)
(***************************************************************************)
\* the decimal digits of n, as Array.prototype.sort() compares numbers
RECURSIVE decimalString(_)
decimalString(n) ==
  IF n < 10 THEN <<48 + n>> ELSE Append(decimalString(n \div 10), 48 + (n % 10))

\* titleWords.indexOf(word)
indexOf(arr, value) ==
  IF \E i \in DOMAIN arr : arr[i] = value
  THEN SetMin({i \in DOMAIN arr : arr[i] = value}) - 1
  ELSE -1

\* titleEqual of Engine.rankPages; pos is <<>> when sort()[0] is undefined
titleEqual(words, page) ==
  With(toWords(page.title, TRUE).words, LAMBDA titleWords :
  With({indexOf(titleWords, words[i]) : i \in DOMAIN words} \ {-1}, LAMBDA found :
    LET matches == Cardinality({i \in DOMAIN words :
                      /\ toLowerCase(words[i]) \in DOMAIN page.index
                      /\ page.index[toLowerCase(words[i])][1] = i - 1})
    IN [exact |-> matches = Len(titleWords),
        begins |-> matches > 0,
        pos |-> IF found = {} THEN <<>>
                ELSE <<CHOOSE n \in found :
                         \A m \in found : LexLeq(decimalString(n), decimalString(m))>>]))

\* url.match(new RegExp('(?![\w\d])' + word + '(?![\w\d])', 'i')): in the
\* string literals \w and \d are the letters w and d, so each look-ahead
\* rejects a following w or d (either case, flag i)
wordMatchesUrl(word, url) ==
  LET notBeforeWD(p) == p > Len(url) \/ url[p] \notin {119, 87, 100, 68}
  IN \E p \in 1..(Len(url) - Len(word) + 1) :
       /\ notBeforeWD(p)
       /\ \A j \in DOMAIN word : lowerChar(url[p + j - 1]) = lowerChar(word[j])
       /\ notBeforeWD(p + Len(word))

\* urlMatch of Engine.rankPages
urlMatch(words, url) ==
  Cardinality({i \in DOMAIN words : wordMatchesUrl(words[i], url)}) >= Len(words)

\* getScore of Engine.rankPages, for a page that exists
getScore(weights, words, page) ==
  IF weights = <<>> THEN 0
  ELSE With(titleEqual(words, page), LAMBDA t :
         (IF t.exact THEN weights[1].titleExactMatch
          ELSE IF t.begins THEN weights[1].titleBegins
          ELSE IF t.pos # <<>> /\ t.pos[1] < 3 THEN weights[1].titleContainsInBeginning
          ELSE 0)
         + (IF urlMatch(words, page.url) THEN weights[1].urlContains ELSE 0))

\* a comparator that forgets the scores
comparePagesById(scores, pageA, pageB) == pageA - pageB

\* the comparator of pages.sort in Engine.rankPages
comparePages(scores, pageA, pageB) ==
  IF scores[pageA] = scores[pageB] THEN pageA - pageB
  ELSE IF scores[pageB] > scores[pageA] THEN 1
  ELSE -1

\* pages.sort(comparator): x goes before the first element it compares below
RECURSIVE sortPages(_, _)
sortPages(scores, pgIds) ==
  IF pgIds = <<>> THEN <<>>
  ELSE With(sortPages(scores, SubSeq(pgIds, 1, Len(pgIds) - 1)), LAMBDA sorted :
         LET x == pgIds[Len(pgIds)]
             after == {i \in DOMAIN sorted : comparePages(scores, x, sorted[i]) < 0}
             at == IF after = {} THEN Len(sorted) + 1 ELSE SetMin(after)
         IN SubSeq(sorted, 1, at - 1) \o <<x>> \o SubSeq(sorted, at, Len(sorted)))

\* Engine.rankPages: throws (reads page.index of null) when weights are
\* configured and a candidate has no page
rankPages(weights, pgs, words, pgIds) ==
  IF weights # <<>> /\ \E n \in DOMAIN pgIds : getPage(pgs, pgIds[n]) = <<>>
  THEN [sorted |-> <<>>, error |-> TRUE]
  ELSE With(Tuple([n \in DOMAIN pgIds |->
                     IF weights = <<>> THEN 0 ELSE getScore(weights, words, pgs[pgIds[n]])]),
            LAMBDA scoreOf :
         [sorted |-> sortPages([id \in Range(pgIds) |->
                                  scoreOf[CHOOSE n \in DOMAIN pgIds : pgIds[n] = id]], pgIds),
          error |-> FALSE])

(***************************************************************************)
(* Engine.search and Engine.add as functions of the stored state.          *)
(***************************************************************************)
\* ---- Engine.constructIntroduction ----
\* A number of the position list is <<n>>, or <<>> for NaN.
NaN == <<>>

plusOne(v) == IF v = NaN THEN NaN ELSE <<v[1] + 1>>

\* for (j = 0; j < qIndices.length - 1; j++) intersection.push(intersection[j] + 1):
\* an element the intersection does not have is undefined, and undefined + 1 is NaN
RECURSIVE extendIntersection(_, _, _)
extendIntersection(intersection, j, count) ==
  IF j >= count THEN intersection
  ELSE extendIntersection(
         Append(intersection,
                IF j + 1 <= Len(intersection) THEN plusOne(intersection[j + 1]) ELSE NaN),
         j + 1, count)

\* the positions of one quoted range: the first anchor and its successors
quotedIndicesOf(indices, quotes, i) ==
  With(quotedWords(indices, quotes, i), LAMBDA qIndices :
  With(adjecentWordIndicesIntersection(qIndices), LAMBDA intersection :
    extendIntersection(Tuple([n \in DOMAIN intersection |-> <<intersection[n]>>]),
                       0, Len(qIndices) - 1)))

\* Array.prototype.splice(start, deleteCount)
splice(arr, start, deleteCount) ==
  LET from == IF start < Len(arr) THEN start ELSE Len(arr)
      count == IF deleteCount < Len(arr) - from THEN deleteCount ELSE Len(arr) - from
  IN SubSeq(arr, 1, from) \o SubSeq(arr, from + count + 1, Len(arr))

\* for (i = 0; i < quotes.length; i += 2) indices.splice(quotes[i], quotes[i + 1]):
\* the second argument is the end of the range, taken as a number of elements
\* (0 when the quote is not closed)
RECURSIVE removeQuoted(_, _, _)
removeQuoted(indices, quotes, i) ==
  IF i \notin quotePairs(quotes) THEN indices
  ELSE removeQuoted(splice(indices, quotes[2 * i - 1],
                           IF 2 * i <= Len(quotes) THEN quotes[2 * i] ELSE 0),
                    quotes, i + 1)

\* sort((a, b) => a - b) of numbers
RECURSIVE sortNumbers(_)
sortNumbers(arr) ==
  IF arr = <<>> THEN <<>>
  ELSE LET rest == sortNumbers(Tail(arr))
           before(v) == v[1] < Head(arr)[1]
           notBefore(v) == v[1] >= Head(arr)[1]
       IN SelectSeq(rest, before) \o <<Head(arr)>> \o SelectSeq(rest, notBefore)

\* The orders sort((a, b) => a - b) can leave: ascending; when NaN stands among
\* numbers the comparator is not consistent and the order is the implementation's.
sortOutcomes(arr) ==
  IF NaN \notin Range(arr)
  THEN {sortNumbers(arr)}
  ELSE {Tuple([k \in DOMAIN arr |-> arr[p[k]]]) : p \in Permutations(DOMAIN arr)}

openMarker == <<34, 45>>
closeMarker == <<45, 34>>
dots == <<46, 46, 46>>

\* pushAtIndex: the word at the position, if there is one
pushAtIndex(page, v, relative) ==
  IF v = NaN \/ v[1] + relative < 0 \/ v[1] + relative >= Len(page.words)
  THEN <<>>
  ELSE <<page.words[v[1] + relative + 1]>>

\* the reduce callback, for the element arrIndex (0-based) of the sorted positions
introductionStep(page, arr, arrIndex) ==
  LET index == arr[arrIndex + 1]
      getIndRelative(relative) ==
        IF arrIndex + relative + 1 \in DOMAIN arr THEN arr[arrIndex + relative + 1] ELSE NaN
      isFirstWord == \/ arrIndex = 0
                     \/ index = NaN
                     \/ getIndRelative(-1) = NaN
                     \/ index[1] # getIndRelative(-1)[1] + 1
      isLastWord == \/ arrIndex = Len(arr) - 1
                    \/ index = NaN
                    \/ getIndRelative(1) = NaN
                    \/ index[1] # getIndRelative(1)[1] - 1
      apart == /\ arrIndex < Len(arr) - 1
               /\ index # NaN
               /\ getIndRelative(1) # NaN
               /\ \/ index[1] - getIndRelative(1)[1] > 1
                  \/ getIndRelative(1)[1] - index[1] > 1
  IN (IF isFirstWord
      THEN pushAtIndex(page, index, -2) \o pushAtIndex(page, index, -1) \o <<openMarker>>
      ELSE <<>>)
     \o pushAtIndex(page, index, 0)
     \o (IF isLastWord
         THEN <<closeMarker>> \o pushAtIndex(page, index, 1) \o pushAtIndex(page, index, 2)
         ELSE <<>>)
     \o (IF apart THEN <<dots>> ELSE <<>>)

\* Array.prototype.join(' ')
RECURSIVE joinWithSpace(_)
joinWithSpace(parts) ==
  IF parts = <<>> THEN <<>>
  ELSE IF Len(parts) = 1 THEN Head(parts)
  ELSE Head(parts) \o <<Space>> \o joinWithSpace(Tail(parts))

\* replace(/("- | -")/g, '"')
RECURSIVE replaceMarkers(_)
replaceMarkers(str) ==
  IF str = <<>> THEN <<>>
  ELSE IF Len(str) >= 3 /\ SubSeq(str, 1, 3) \in {openMarker \o <<Space>>, <<Space>> \o closeMarker}
  THEN <<Quote>> \o replaceMarkers(SubSeq(str, 4, Len(str)))
  ELSE <<Head(str)>> \o replaceMarkers(Tail(str))

\* joinArrs(indices) after the quoted words were spliced out of indices: the
\* positions constructIntroduction takes for the unquoted words
unquotedIndices(words, quotes, page) ==
  Flatten(removeQuoted(Tuple([i \in DOMAIN words |-> indicesForWord(page, words[i])]),
                       quotes, 1))

\* Engine.constructIntroduction: the introductions the call can return (one,
\* unless the sort is handed NaN among numbers)
constructIntroduction(words, quotes, page) ==
  With(Tuple([i \in DOMAIN words |-> indicesForWord(page, words[i])]), LAMBDA indices :
  With(Tuple([i \in 1..Cardinality(quotePairs(quotes)) |->
                quotedIndicesOf(indices, quotes, i)]), LAMBDA quotedIndices :
  With(unquotedIndices(words, quotes, page), LAMBDA rest :
  With(Flatten(quotedIndices) \o Tuple([n \in DOMAIN rest |-> <<rest[n]>>]),
       LAMBDA introductionIndexResult :
    { replaceMarkers(joinWithSpace(
        Flatten(Tuple([k \in DOMAIN sorted |-> introductionStep(page, sorted, k - 1)]))))
      : sorted \in sortOutcomes(introductionIndexResult) }))))

\* Engine.search: status "ok" with the hits, or "TypeError" when a page a
\* posting refers to is missing.  A hit carries the page id it was built
\* from next to the title and url of the SearchResult.
search(file, pgs, stops, weights, text, maxCount) ==
  With(toWords(text, FALSE), LAMBDA tokens :
  With(SelectSeq(tokens.words, LAMBDA word : ~isStopWord(stops, word)),
       LAMBDA wordsWithoutStopWords :
  With(Tuple([i \in DOMAIN wordsWithoutStopWords |->
                getWordIterator(file, toLowerCase(wordsWithoutStopWords[i]))]),
       LAMBDA arrs :
  With(intersect(arrs, 100,
                 [v \in UNION {Range(arrs[i]) : i \in DOMAIN arrs} |->
                    isQuoteOnPage(pgs, tokens.words, tokens.quotes, v)]), LAMBDA found :
  With(rankPages(weights, pgs, wordsWithoutStopWords, uniqueArr(found.result)),
       LAMBDA ranked :
  With(SubSeq(ranked.sorted, 1,
              IF Len(ranked.sorted) < maxCount THEN Len(ranked.sorted) ELSE maxCount),
       LAMBDA top :
    [status |-> IF found.error \/ ranked.error
                   \/ \E n \in DOMAIN top : getPage(pgs, top[n]) = <<>>
                THEN "TypeError" ELSE "ok",
     hits |-> IF found.error \/ ranked.error
                 \/ \E n \in DOMAIN top : getPage(pgs, top[n]) = <<>>
              THEN <<>>
              ELSE [n \in DOMAIN top |->
                      [pageId |-> top[n], title |-> pgs[top[n]].title,
                       introductions |->
                         constructIntroduction(tokens.words, tokens.quotes, pgs[top[n]]),
                       url |-> pgs[top[n]].url]],
     file |-> IF Len(arrs) = 0 THEN file ELSE getFileDescriptor(file)]))))))

\* the words of add to index: lower-cased, stop-words dropped, repeats
\* within the page dropped
wordsToAdd(stops, words) ==
  With(SelectSeq([i \in DOMAIN words |-> toLowerCase(words[i])],
                 LAMBDA word : ~isStopWord(stops, word)), LAMBDA lowered :
    SelectSeq([i \in DOMAIN lowered |->
                 IF \E j \in 1..(i - 1) : lowered[j] = lowered[i] THEN <<>> ELSE lowered[i]],
              LAMBDA word : word # <<>>))

\* the "init words" loop of add: initWord then addWord for every word, up to
\* the first error
RECURSIVE addWordsLoop(_, _, _, _)
addWordsLoop(file, pgs, addWords, seed) ==
  IF addWords = <<>> THEN [file |-> file, error |-> "none"]
  ELSE With(initWord(file, Head(addWords)), LAMBDA inited :
         IF inited.error # "none" THEN inited
         ELSE With(addWord(inited.file, pgs, Head(addWords), seed), LAMBDA added :
                IF added.error # "none" THEN added
                ELSE addWordsLoop(added.file, pgs, Tail(addWords), seed)))

\* the lower-cased words that name a property every object inherits from
\* Object.prototype: "constructor" and "__proto__"
inheritedNames ==
  { <<99, 111, 110, 115, 116, 114, 117, 99, 116, 111, 114>>,
    <<95, 95, 112, 114, 111, 116, 111, 95, 95>> }

\* the page index add builds: lower-cased word -> its positions in words.
\* pageIndex is a plain object: for an inherited name pageIndex[wordLower] is
\* truthy from the start and has no push, so no entry is made for it, and
\* JSON.stringify stores own entries only.
pageIndex(words) ==
  [w \in {toLowerCase(words[i]) : i \in DOMAIN words} \ inheritedNames |->
     LET at(i) == toLowerCase(words[i + 1]) = w
     IN SelectSeq([i \in DOMAIN words |-> i - 1], at)]

\* Engine.add: the status it ends with and the storage it leaves
add(file, pgs, urls, stops, title, text, url, rank) ==
  With(toWords(title \o <<Space>> \o text, FALSE).words, LAMBDA words :
  With(getUrlToPage(urls, url), LAMBDA pageId :
  With(getSeed(pgs, rank), LAMBDA seed :
    IF pageId # <<>> /\ pageId[1] # 0
    THEN [status |-> "DuplicateUrl", seed |-> -1, file |-> file, pages |-> pgs, urls |-> urls]
    ELSE IF seed < 0
    THEN [status |-> "RankError", seed |-> -1, file |-> file, pages |-> pgs, urls |-> urls]
    ELSE With(addWordsLoop(file, pgs, wordsToAdd(stops, words), seed), LAMBDA indexed :
           [status |-> IF indexed.error # "none" THEN indexed.error ELSE "ok",
            seed |-> seed,
            file |-> indexed.file,
            pages |-> IF indexed.error # "none" THEN pgs
                      ELSE initPage(pgs, seed, [title |-> title, url |-> url,
                                                words |-> words, index |-> pageIndex(words)]),
            urls |-> setUrlToPage(urls, url, seed)]))))

\* TRUE when a bucket lookup of add would never return (every hash row is
\* taken by another key)
addDiverges(file, stops, title, text) ==
  With(wordsToAdd(stops, toWords(title \o <<Space>> \o text, FALSE).words), LAMBDA addWords :
    \E i \in DOMAIN addWords :
       getHashEntryMatchingKey(getFileDescriptor(file), addWords[i]).diverges)

(***************************************************************************)
(* The inputs explored: a small corpus, a few queries and two engine       *)
(* configurations.  Strings are sequences of character codes:              *)
(* a=97 b=98 c=99 d=100 e=101 f=102 x=120 z=122, A=65 B=66 C=67 D=68,      *)
(* "/"=47.                                                                 *)
(***************************************************************************)
\* the word "constructor": longer than a hash key may be, and the name of a
\* property that every JavaScript object inherits
longWord == <<99, 111, 110, 115, 116, 114, 117, 99, 116, 111, 114>>

\* the documents add is called with
Documents ==
  << [title |-> <<97, 98>>, text |-> <<99, 100, Space, 120>>, url |-> <<47, 97, 98>>],
     [title |-> <<67, 68>>, text |-> <<120, Space, 97, 98>>, url |-> <<47, 99, 100>>],
     [title |-> <<97, 98>>, text |-> <<101, 102, Space, 99, 100>>, url |-> <<47, 101, 102>>],
     [title |-> <<97, 98>>, text |-> longWord, url |-> <<47, 122, 122>>] >>

\* the ranks add is called with
Ranks == {0, MaxRank}

\* the query texts search is called with
Queries ==
  << <<97, 98, Space, 99, 100, Space, 101, 102>>,
     <<99, 100>>,
     <<67, 68>>,
     <<99, 100, Space, 97, 98>>,
     <<99, 100, Space, 65, 66>>,
     <<Quote, 120, Space, 97, 98, Quote>>,
     <<Quote, 97, 98, Space, 99, 100, Quote>>,
     <<Quote, 97, 98, Space, 99, 100, Quote, Space, Quote, 99, 100, Space, 97, 98, Quote>>,
     <<97, 98>>,
     <<Quote, 97, 98, Space, 99, 100, Space, 101, 102, Quote>>,
     <<101, 102, Space, Quote, 97, 98, Quote, Space, 99, 100>> >>

\* search(text) uses the default maxCount of 100; one query also runs with 1
Searches ==
  {<<q, 100>> : q \in DOMAIN Queries} \cup {<<2, 1>>}

\* the two engines explored: new Engine({storage}) and an engine with two
\* stop-words and rank weights (RankWeights of EngineProps)
Configs ==
  << [stopWords |-> {}, rankWeights |-> <<>>],
     [stopWords |-> {<<97, 98>>, longWord},
      rankWeights |-> <<[titleExactMatch |-> 10, titleBegins |-> 5,
                         titleContainsInBeginning |-> 1, urlContains |-> 5]>>] >>

(***************************************************************************)
(* The state machine.                                                      *)
(***************************************************************************)
VARIABLES
  wordDic,      \* the bytes of the word-dic file, <<>> while it does not exist
  pages,        \* page id -> stored page (BinaryFileStorage page files)
  urlToPage,    \* url -> page id (BinaryFileStorage url files)
  stopWords,    \* Engine.stopWords
  rankWeights,  \* Engine.rankWeights: <<>> or <<weights>>
  adds,         \* number of add calls made so far
  result        \* the last call: its inputs and what it returned or threw

vars == <<wordDic, pages, urlToPage, stopWords, rankWeights, adds, result>>

NoCall ==
  [op |-> "none", status |-> "none", doc |-> 0, rank |-> 0, seed |-> -1,
   query |-> 0, maxCount |-> 0, hits |-> <<>>]

Init ==
  /\ wordDic = <<>>
  /\ pages = <<>>
  /\ urlToPage = <<>>
  /\ \E c \in DOMAIN Configs :
       /\ stopWords = Configs[c].stopWords
       /\ rankWeights = Configs[c].rankWeights
  /\ adds = 0
  /\ result = NoCall

\* engine.add({title, text, url, rank}) run to completion (return or throw)
Add(doc, rank) ==
  /\ adds < MaxAdds
  /\ ~addDiverges(wordDic, stopWords, Documents[doc].title, Documents[doc].text)
  /\ \E r \in {add(wordDic, pages, urlToPage, stopWords, Documents[doc].title,
                   Documents[doc].text, Documents[doc].url, rank)} :
        /\ wordDic' = r.file
        /\ pages' = r.pages
        /\ urlToPage' = r.urls
        /\ result' = [NoCall EXCEPT !.op = "add", !.status = r.status, !.doc = doc,
                                    !.rank = rank, !.seed = r.seed]
  /\ adds' = adds + 1
  /\ UNCHANGED <<stopWords, rankWeights>>

\* engine.search(text, maxCount) run to completion (return or throw)
Search(query, maxCount) ==
  \E r \in {search(wordDic, pages, stopWords, rankWeights, Queries[query], maxCount)} :
     /\ wordDic' = r.file
     /\ result' = [NoCall EXCEPT !.op = "search", !.status = r.status, !.query = query,
                                 !.maxCount = maxCount, !.hits = r.hits]
     /\ UNCHANGED <<pages, urlToPage, stopWords, rankWeights, adds>>

Next ==
  \/ \E doc \in DOMAIN Documents, rank \in Ranks : Add(doc, rank)
  \/ \E s \in Searches : Search(s[1], s[2])

Spec == Init /\ [][Next]_vars

(***************************************************************************)
(* Vocabulary of the properties below.                                     *)
(***************************************************************************)
\* the last call was a search that returned
Searched == result.op = "search" /\ result.status = "ok"

\* the words and the quote marks of query q
queryWords(q) == toWords(Queries[q], FALSE).words
queryQuotes(q) == toWords(Queries[q], FALSE).quotes

\* the non-stop terms of query q, stop-words decided on the lower-cased word
nonStopTerms(q) ==
  {t \in {toLowerCase(queryWords(q)[i]) : i \in DOMAIN queryWords(q)} :
     ~isStopWord(stopWords, t)}

\* the words of query q that search keeps (its wordsWithoutStopWords)
keptWords(q) == SelectSeq(queryWords(q), LAMBDA word : ~isStopWord(stopWords, word))

\* the page holds the term, letter case ignored
containsTerm(page, term) ==
  \E i \in DOMAIN page.words : toLowerCase(page.words[i]) = toLowerCase(term)

\* the words of phrase stand at consecutive positions of the page, in order
phraseOnPage(page, phrase) ==
  \E p \in 0..(Len(page.words) - Len(phrase)) :
     \A j \in DOMAIN phrase : toLowerCase(page.words[p + j]) = toLowerCase(phrase[j])

\* the page ids of a list of hits
hitIds(hits) == {hits[n].pageId : n \in DOMAIN hits}

\* the terms that have posting lists: the indexable words of the corpus
Vocabulary == {<<97, 98>>, <<99, 100>>, <<101, 102>>}

\* the posting list of a term as the word iterator yields it
postings(term) == getWordIterator(wordDic, term)

\* every posting names a stored page that holds the term
PostingsMatchPages ==
  \A term \in Vocabulary : \A id \in Range(postings(term)) :
     id \in DOMAIN pages /\ containsTerm(pages[id], term)

\* s is strictly ascending
StrictlyAscending(s) == \A i, j \in DOMAIN s : i < j => s[i] < s[j]

(***************************************************************************)
(* C1: every document search returns contains every non-stop term of the  *)
(* query (letter case ignored), and its id is in the posting list of      *)
(* every one of these terms; stated for the states in which the posting   *)
(* lists name only stored pages that hold the term.                        *)
(***************************************************************************)
C1_ReturnedDocsContainEveryTerm ==
  (Searched /\ PostingsMatchPages) =>
    \A n \in DOMAIN result.hits : \A term \in nonStopTerms(result.query) :
       /\ containsTerm(pages[result.hits[n].pageId], term)
       /\ result.hits[n].pageId \in Range(postings(term))

(***************************************************************************)
(* C2: findability.  Every stored page is yielded by the word iterator of *)
(* each of its non-stop terms, and a search without quoted phrases whose  *)
(* non-stop terms all occur in a stored page returns that page's url when *)
(* no more than min(100, maxCount) pages match.                            *)
(***************************************************************************)
C2_Findability ==
  /\ \A id \in DOMAIN pages : \A term \in Range(wordsToAdd(stopWords, pages[id].words)) :
       id \in Range(postings(term))
  /\ (Searched /\ queryQuotes(result.query) = <<>>) =>
       LET matching == {id \in DOMAIN pages :
                          \A term \in nonStopTerms(result.query) :
                             containsTerm(pages[id], term)}
       IN (Cardinality(matching) <= 100 /\ Cardinality(matching) <= result.maxCount) =>
            \A id \in matching :
               \E n \in DOMAIN result.hits : result.hits[n].url = pages[id].url

(***************************************************************************)
(* C3: for a query with exactly one quoted phrase every returned document *)
(* holds the words of the phrase at consecutive positions, in query order.*)
(***************************************************************************)
C3_SinglePhraseAdjacent ==
  (Searched /\ Len(queryQuotes(result.query)) = 2) =>
    \A n \in DOMAIN result.hits :
       phraseOnPage(pages[result.hits[n].pageId],
                    quotedWords(queryWords(result.query), queryQuotes(result.query), 1))

(***************************************************************************)
(* C4: after any sequence of add calls, returned or thrown, every term's  *)
(* posting list is strictly ascending in page id.                          *)
(***************************************************************************)
C4_PostingListsAscending ==
  \A term \in Vocabulary : StrictlyAscending(postings(term))

(***************************************************************************)
(* C5: search returns its hits by descending score, equal scores by       *)
(* ascending page id; without rank weights every score is 0 and the hits  *)
(* are in ascending page id order.                                         *)
(***************************************************************************)
\* the score rankPages gives the n-th hit of the last search
hitScore(n) ==
  getScore(rankWeights, keptWords(result.query), pages[result.hits[n].pageId])

C5_ResultsOrdered ==
  Searched =>
    \A i, j \in DOMAIN result.hits :
       i < j =>
         \/ hitScore(i) > hitScore(j)
         \/ /\ hitScore(i) = hitScore(j)
            /\ result.hits[i].pageId < result.hits[j].pageId

\* with weights configured a page of larger id was returned before one of
\* smaller id
C5_HigherScoreFirst ==
  /\ Searched
  /\ rankWeights # <<>>
  /\ Len(result.hits) >= 2
  /\ result.hits[1].pageId > result.hits[2].pageId

(***************************************************************************)
(* C6: the page id add reserves for rank is the largest r in 1..rank that *)
(* has no page; when there is none add fails with the rank error; no page *)
(* is ever stored under id 0.                                              *)
(***************************************************************************)
C6_ReserveDocId ==
  [][(adds' = adds + 1 /\ result'.status # "DuplicateUrl") =>
       /\ LET free == {r \in 1..result'.rank : r \notin DOMAIN pages}
          IN IF free = {} THEN result'.status = "RankError"
             ELSE result'.status # "RankError" /\ result'.seed = SetMax(free)
       /\ 0 \notin DOMAIN pages']_vars

(***************************************************************************)
(* C7: an add with a url that an earlier add bound to a page id fails     *)
(* with the duplicate-url error, whatever the id and whether or not the   *)
(* earlier add completed.                                                  *)
(***************************************************************************)
C7_DuplicateUrlRejected ==
  [][(adds' = adds + 1 /\ Documents[result'.doc].url \in DOMAIN urlToPage) =>
       result'.status = "DuplicateUrl"]_vars

(***************************************************************************)
(* C8: after any sequence of add calls, returned or thrown, every bound   *)
(* url names a stored page that carries this url, and no two urls are     *)
(* bound to the same page id.                                              *)
(***************************************************************************)
C8_UrlMapConsistent ==
  /\ \A u \in DOMAIN urlToPage :
       urlToPage[u] \in DOMAIN pages /\ pages[urlToPage[u]].url = u
  /\ \A u, v \in DOMAIN urlToPage : urlToPage[u] = urlToPage[v] => u = v

(***************************************************************************)
(* C9: two queries that differ only in the letter case of their words     *)
(* return the same set of pages, with any stop-word set.                   *)
(***************************************************************************)
C9_CaseInsensitive ==
  Searched =>
    \A q \in DOMAIN Queries :
       toLowerCase(Queries[q]) = toLowerCase(Queries[result.query]) =>
         \E r \in {search(wordDic, pages, stopWords, rankWeights, Queries[q],
                          result.maxCount)} :
            r.status = "ok" /\ hitIds(r.hits) = hitIds(result.hits)

(***************************************************************************)
(* C10: for a query with two or more quoted phrases.                       *)
(***************************************************************************)
\* the last search returned for a query with two or more quoted phrases
SearchedPhrases ==
  /\ Searched
  /\ Len(queryQuotes(result.query)) >= 4
  /\ Len(queryQuotes(result.query)) % 2 = 0

\* the i-th quoted phrase of the last query
phrase(i) == quotedWords(queryWords(result.query), queryQuotes(result.query), i)

EmptyIndex == pages = <<>> /\ \A term \in Vocabulary : postings(term) = <<>>

\* every word of query q is a stop-word as the contract defines it
AllStopWords(q) ==
  \A i \in DOMAIN queryWords(q) :
     Len(queryWords(q)[i]) < 2 \/ queryWords(q)[i] \in stopWords

C11_StopWordsOrEmptyIndexReturnNothing ==
  (result.op = "search" /\ (EmptyIndex \/ AllStopWords(result.query))) =>
    result.status = "ok" /\ result.hits = <<>>

\* a search for a stop-word that a stored page holds returned nothing
C11_StopWordOfStoredPage ==
  /\ Searched
  /\ queryWords(result.query) # <<>>
  /\ AllStopWords(result.query)
  /\ \E id \in DOMAIN pages : containsTerm(pages[id], queryWords(result.query)[1])
  /\ result.hits = <<>>

(***************************************************************************)
(* C12: search(q, maxCount) returns at most min(maxCount, 100) results    *)
(* and never the same page twice; the candidate cap is enforced by        *)
(* intersect, which never hands back more values than the cap it is given.*)
(***************************************************************************)
\* the posting iterators search opens for query q
queryArrs(q) ==
  Tuple([i \in DOMAIN keptWords(q) |-> postings(toLowerCase(keptWords(q)[i]))])

\* caps tried on intersect besides the 100 of search
IntersectCaps == 1..2

C12_AtMostMaxCountNoRepeats ==
  Searched =>
    /\ Len(result.hits) <= result.maxCount
    /\ Len(result.hits) <= 100
    /\ \A i, j \in DOMAIN result.hits :
         i # j => /\ result.hits[i].pageId # result.hits[j].pageId
                  /\ result.hits[i].url # result.hits[j].url
    /\ \A cap \in IntersectCaps :
         Len(intersect(queryArrs(result.query), cap,
                       alwaysAdd(queryArrs(result.query))).result) <= cap

\* a search with maxCount 1 returned one page although two pages matched
C12_Truncated ==
  /\ Searched
  /\ result.maxCount = 1
  /\ Len(result.hits) = 1
  /\ Len(keptWords(result.query)) = 1
  /\ Cardinality(Range(queryArrs(result.query)[1])) >= 2

(***************************************************************************)
(* C13: a search with at least one non-stop term that was never indexed   *)
(* returns the empty list and raises no error, whatever its other terms   *)
(* match.                                                                  *)
(***************************************************************************)
\* no add has entered the term into the word hash
neverIndexed(term) == ~has(getFileDescriptor(wordDic), term)

C13_UnindexedTermReturnsNothing ==
  (result.op = "search"
     /\ \E term \in nonStopTerms(result.query) : neverIndexed(term)) =>
    result.status = "ok" /\ result.hits = <<>>

\* a search returned nothing although one of its terms has postings, because
\* another one was never indexed
C13_OtherTermMatches ==
  /\ Searched
  /\ result.hits = <<>>
  /\ \E term \in nonStopTerms(result.query) : neverIndexed(term)
  /\ \E term \in nonStopTerms(result.query) : postings(term) # <<>>

(***************************************************************************)
(* The Hash posting store on its own: set, insertAt, sorted insertion     *)
(* (findIndexToInsertSortedAt followed by insertAt) and append on the     *)
(* word-dic file, as the tests of Hash call them.  wordDic is the file,   *)
(* result the last call, adds the number of calls made; the variables of  *)
(* the engine keep their initial values.                                   *)
(***************************************************************************)
\* at most MaxHashOps calls of Hash are explored
MaxHashOps == 4

\* the keys used; both hash to the same row
HashKeys == {<<97, 98>>, <<99, 100>>}

\* the payloads used: Hash.toBEInt32 of 1, 128 and 129
Payloads == {toBEInt32(1), toBEInt32(128), toBEInt32(129)}

\* the indices insertAt is called with
InsertIndices == {0, 1, 5}

HashCall(op, key, index, buf, status) ==
  [op |-> op, key |-> key, index |-> index, buf |-> buf, status |-> status]

HashInit ==
  /\ wordDic = <<>>
  /\ pages = <<>>
  /\ urlToPage = <<>>
  /\ stopWords = {}
  /\ rankWeights = <<>>
  /\ adds = 0
  /\ result = NoCall

\* hash.set(key) for a key that is not set yet
HashSet(key) ==
  /\ adds < MaxHashOps
  /\ ~has(getFileDescriptor(wordDic), key)
  /\ \E r \in {set(wordDic, key, <<>>)} :
        /\ wordDic' = r.file
        /\ result' = HashCall("set", key, 0, <<>>, r.error)
  /\ adds' = adds + 1
  /\ UNCHANGED <<pages, urlToPage, stopWords, rankWeights>>

\* hash.insertAt(key, index, buf) for a key that is set
HashInsertAt(key, index, buf) ==
  /\ adds < MaxHashOps
  /\ has(getFileDescriptor(wordDic), key)
  /\ wordDic' = insertAt(wordDic, key, index, buf)
  /\ result' = HashCall("insertAt", key, index, buf, "none")
  /\ adds' = adds + 1
  /\ UNCHANGED <<pages, urlToPage, stopWords, rankWeights>>

\* hash.insertAt(key, await hash.findIndexToInsertSortedAt(key, buf), buf)
HashInsertSorted(key, buf) ==
  /\ adds < MaxHashOps
  /\ has(getFileDescriptor(wordDic), key)
  /\ \E index \in {findIndexToInsertSortedAt(wordDic, key, buf)} :
        /\ wordDic' = insertAt(wordDic, key, index, buf)
        /\ result' = HashCall("insertSorted", key, index, buf, "none")
  /\ adds' = adds + 1
  /\ UNCHANGED <<pages, urlToPage, stopWords, rankWeights>>

\* one write through hash.appendIterator(key) for a key that is set
HashAppend(key, buf) ==
  /\ adds < MaxHashOps
  /\ has(getFileDescriptor(wordDic), key)
  /\ \E r \in {append(wordDic, key, buf)} :
        /\ wordDic' = r.file
        /\ result' = HashCall("append", key, 0, buf, r.error)
  /\ adds' = adds + 1
  /\ UNCHANGED <<pages, urlToPage, stopWords, rankWeights>>

HashNext ==
  \/ \E key \in HashKeys : HashSet(key)
  \/ \E key \in HashKeys, index \in InsertIndices, buf \in Payloads :
        HashInsertAt(key, index, buf)
  \/ \E key \in HashKeys, buf \in Payloads : HashInsertSorted(key, buf)
  \/ \E key \in HashKeys, buf \in Payloads : HashAppend(key, buf)

HashSpec == HashInit /\ [][HashNext]_vars

\* the payloads hash.getIterator(key) yields from file
hashList(file, key) ==
  IF ~has(getFileDescriptor(file), key) THEN <<>>
  ELSE With(getIterator(file, key, FALSE), LAMBDA items :
         Tuple([n \in DOMAIN items |-> items[n].buffer]))

\* list with buf inserted at position min(index, Len(list))
InsertedAt(list, index, buf) ==
  LET at == IF index < Len(list) THEN index ELSE Len(list)
  IN SubSeq(list, 1, at) \o <<buf>> \o SubSeq(list, at + 1, Len(list))

\* the last step was a call of Hash
HashStep(op) == adds' = adds + 1 /\ result'.op = op

(***************************************************************************)
(* C14: after set(K) the list of K is empty, and every insertAt(K, i, p)  *)
(* turns the sequence that iterating K yields into the same sequence with *)
(* p inserted at position min(i, length), leaving the lists of the other  *)
(* keys alone; so the list is the one built by the insertAt calls in      *)
(* order, one payload per call.                                            *)
(***************************************************************************)
C14_InsertAtListOrder ==
  [][/\ HashStep("set") => hashList(wordDic', result'.key) = <<>>
     /\ HashStep("insertAt") =>
          /\ hashList(wordDic', result'.key)
               = InsertedAt(hashList(wordDic, result'.key), result'.index, result'.buf)
          /\ \A key \in HashKeys \ {result'.key} :
               hashList(wordDic', key) = hashList(wordDic, key)]_vars

\* insertAt put a payload between two payloads of a list
C14_InsertedInTheMiddle ==
  /\ result.op = "insertAt"
  /\ result.index = 1
  /\ Len(hashList(wordDic, result.key)) >= 3
  /\ hashList(wordDic, result.key)[2] = result.buf
  /\ hashList(wordDic, result.key)[1] # result.buf

(***************************************************************************)
(* C15: sorted insertion.  Inserting a payload that is not in the list at *)
(* the index findIndexToInsertSortedAt returns keeps a list that is       *)
(* ascending in byte-wise (unsigned big-endian) order ascending; hence a  *)
(* list built from distinct payloads by sorted insertions alone is        *)
(* ascending after every insertion.                                        *)
(***************************************************************************)
\* list is strictly ascending, payloads compared byte by byte
AscendingBytes(list) ==
  \A i, j \in DOMAIN list : i < j => (list[i] # list[j] /\ LexLeq(list[i], list[j]))

C15_SortedInsertKeepsOrder ==
  [][(/\ HashStep("insertSorted")
      /\ AscendingBytes(hashList(wordDic, result'.key))
      /\ result'.buf \notin Range(hashList(wordDic, result'.key))) =>
       AscendingBytes(hashList(wordDic', result'.key))]_vars

\* a sorted insertion put a payload between a smaller and a larger one
C15_SortedBetween ==
  /\ result.op = "insertSorted"
  /\ Len(hashList(wordDic, result.key)) = 3
  /\ hashList(wordDic, result.key)[2] = result.buf
  /\ AscendingBytes(hashList(wordDic, result.key))

(***************************************************************************)
(* C16: append(K, p) acts on the list of K as insertAt(K, length(K), p)   *)
(* does: the sequence that iterating K yields gets p as its new last      *)
(* element and the lists of the other keys stay as they are; so appended  *)
(* payloads follow everything that was in the list, in append order.      *)
(***************************************************************************)
C16_AppendIsInsertAtEnd ==
  [][HashStep("append") =>
       /\ result'.status = "none"
       /\ hashList(wordDic', result'.key) = Append(hashList(wordDic, result'.key), result'.buf)
       /\ \E before \in {hashList(wordDic, result'.key)} :
            \E file \in {insertAt(wordDic, result'.key, Len(before), result'.buf)} :
               hashList(wordDic', result'.key) = hashList(file, result'.key)
       /\ \A key \in HashKeys \ {result'.key} :
            hashList(wordDic', key) = hashList(wordDic, key)]_vars

\* a payload was appended to a list that insertAt and append had filled
C16_AppendedAfterInserted ==
  /\ result.op = "append"
  /\ Len(hashList(wordDic, result.key)) = 3
  /\ hashList(wordDic, result.key)[3] = result.buf
  /\ hashList(wordDic, result.key)[2] # result.buf
  /\ hashList(wordDic, result.key)[1] # result.buf

(***************************************************************************)
(* C17: the index stored with every page maps each lower-cased word of    *)
(* the page, stop-words included, to the ascending list of the 0-based    *)
(* positions at which the page has this word, and has no other entries.   *)
(***************************************************************************)
\* the positions of token in words, ascending
positionsOf(words, token) ==
  LET at(i) == toLowerCase(words[i + 1]) = token
  IN SelectSeq([i \in DOMAIN words |-> i - 1], at)

C17_PageIndexComplete ==
  \A id \in DOMAIN pages :
     /\ DOMAIN pages[id].index
          = {toLowerCase(pages[id].words[i]) : i \in DOMAIN pages[id].words}
     /\ \A token \in DOMAIN pages[id].index :
          pages[id].index[token] = positionsOf(pages[id].words, token)

\* a stored page whose index lists a stop-word and a word that occurs at a
\* later position
C17_IndexedPage ==
  \E id \in DOMAIN pages :
     /\ \E token \in DOMAIN pages[id].index : Len(token) < 2
     /\ \E token \in DOMAIN pages[id].index : pages[id].index[token] = <<2>>


\* ---- C18 ----
\* the 1-based places of the query words that stand outside every quoted range
unquotedPlaces(q) ==
  {k \in DOMAIN queryWords(q) :
     \A i \in quotePairs(queryQuotes(q)) :
        ~(queryQuotes(q)[2 * i - 1] < k
          /\ k <= (IF 2 * i <= Len(queryQuotes(q)) THEN queryQuotes(q)[2 * i]
                   ELSE Len(queryWords(q))))}

\* the matched positions of the page (0-based): the positions of every quoted
\* phrase standing on the page, and the positions of every unquoted query word
matchedPositions(page, q) ==
  UNION {{p + j - 1 : j \in DOMAIN quotedWords(queryWords(q), queryQuotes(q), i)} :
           <<p, i>> \in {pi \in (0..Len(page.words)) \X quotePairs(queryQuotes(q)) :
              /\ pi[1] + Len(quotedWords(queryWords(q), queryQuotes(q), pi[2])) <= Len(page.words)
              /\ \A j \in DOMAIN quotedWords(queryWords(q), queryQuotes(q), pi[2]) :
                    toLowerCase(page.words[pi[1] + j])
                      = toLowerCase(quotedWords(queryWords(q), queryQuotes(q), pi[2])[j])}}
  \cup {p \in 0..(Len(page.words) - 1) :
          \E k \in unquotedPlaces(q) :
             toLowerCase(page.words[p + 1]) = toLowerCase(queryWords(q)[k])}

\* the elements of a set of numbers, ascending
RECURSIVE ascending(_)
ascending(S) == IF S = {} THEN <<>> ELSE <<SetMin(S)>> \o ascending(S \ {SetMin(S)})

\* the snippet of the claim for the matched positions P: every maximal run of
\* consecutive positions once, in one pair of double quotes, up to two words of
\* the page before and after it, and "..." between successive runs
snippetOf(page, P) ==
  LET firsts == ascending({p \in P : p - 1 \notin P})
      lastOf(first) == SetMax({e \in P : \A m \in first..e : m \in P})
      wordsAt(from, to) ==
        [k \in 1..((IF to < Len(page.words) - 1 THEN to ELSE Len(page.words) - 1)
                   - (IF from > 0 THEN from ELSE 0) + 1) |->
           page.words[(IF from > 0 THEN from ELSE 0) + k]]
      runOf(n) ==
        wordsAt(firsts[n] - 2, firsts[n] - 1)
        \o << <<Quote>> \o joinWithSpace(wordsAt(firsts[n], lastOf(firsts[n]))) \o <<Quote>> >>
        \o wordsAt(lastOf(firsts[n]) + 1, lastOf(firsts[n]) + 2)
        \o (IF n < Len(firsts) THEN <<dots>> ELSE <<>>)
  IN joinWithSpace(Flatten([n \in DOMAIN firsts |-> runOf(n)]))

\* the page holds every quoted phrase of query q
holdsEveryPhrase(page, q) ==
  \A i \in quotePairs(queryQuotes(q)) :
     phraseOnPage(page, quotedWords(queryWords(q), queryQuotes(q), i))

Phrases == UNION {[1..m -> Vocabulary] : m \in 1..3}

\* C19: on every stored page and for every phrase of one to three words,
\* isAdjecentWords is true exactly when the words of the phrase stand at
\* consecutive positions p, p + 1, ... of the page.
C19_AdjacencyExact ==
  (result.op = "add" /\ result.status = "ok") =>
    \A id \in DOMAIN pages : \A words \in Phrases :
       isAdjecentWords(words, pages[id]) <=> phraseOnPage(pages[id], words)

\* a stored page holds a three-word phrase and the adjacency check finds it
C19_ThreeWordPhraseFound ==
  /\ result.op = "add" /\ result.status = "ok"
  /\ \E id \in DOMAIN pages : \E words \in [1..3 -> Vocabulary] :
        isAdjecentWords(words, pages[id]) /\ phraseOnPage(pages[id], words)

\* ---- C20 ----
\* every page id of every posting list has a forward record (getPage is not null)
postedIdsHavePages ==
  \A term \in Vocabulary : \A id \in Range(postings(term)) : getPage(pages, id) # <<>>

\* C20: add writes the forward record of a page id before it inserts the id
\* into a posting list, so once add has returned or thrown, every page id
\* found in a posting list has a forward record.
C20_ForwardRecordBeforePostings ==
  result.op = "add" => postedIdsHavePages

\* an add threw after an earlier add had indexed a page, and every posted id
\* has its forward record
C20_FailedAddKeepsRecords ==
  /\ result.op = "add"
  /\ result.status # "ok"
  /\ \E term \in Vocabulary : postings(term) # <<>>
  /\ postedIdsHavePages

(***************************************************************************)
(* The calls of Hash with any argument: keys that were never set, keys of *)
(* keySize bytes and more, payloads longer than a node holds.             *)
(***************************************************************************)
MaxApiOps == 2

\* a key that fills the keySize bytes of a hash row, and one that is a byte
\* longer
fullKey == [i \in 1..keySize |-> 97 + (i % 2)]
longKey == [i \in 1..(keySize + 1) |-> 97 + (i % 2)]
\* the keys used: "ab", "e" (its home row is row 0), and the two long keys
ApiKeys == {<<97, 98>>, <<101>>, fullKey, longKey}

\* payloads of nodeSize - 4 bytes (the most a node holds), of one byte more
\* and of one byte more than a whole node
fitPayload == toBEInt32(1)
spillPayload == [i \in 1..(nodeSize - 4 + 1) |-> i]
hugePayload == [i \in 1..(nodeSize + 1) |-> i]
ApiPayloads == {fitPayload, spillPayload, hugePayload}

\* the file after the nodes insertAt reserves, before it writes any node
insertAtReserved(file, key, index) ==
  With(getAndIncreateFreeNodeOffset(file), LAMBDA alloc :
    IF index = 0 THEN alloc.file
    ELSE IF Len(getIterator(alloc.file, key, TRUE)) - 1 < 1
    THEN getAndIncreateFreeNodeOffset(alloc.file).file
    ELSE alloc.file)

\* hash.insertAt(key, index, buf) as called: the file is created when it is
\* missing; a lookup that finds every row taken never returns; writeNode,
\* reached after the nodes were reserved, throws when buf is longer than
\* nodeSize.  Returns the file and the error thrown ("none" when it returns).
insertAtCall(file0, key, index, buf) ==
  With(getFileDescriptor(file0), LAMBDA file :
    IF getHashEntryMatchingKey(file, key).diverges
    THEN [file |-> file, error |-> "diverges"]
    ELSE IF Len(buf) > nodeSize
    THEN [file |-> insertAtReserved(file, key, index), error |-> "NodeSizeTooLarge"]
    ELSE [file |-> insertAt(file, key, index, buf), error |-> "none"])

\* hash.set(key, data) as called
setCall(file0, key, data) ==
  IF getHashEntryMatchingKey(getFileDescriptor(file0), key).diverges
  THEN [file |-> getFileDescriptor(file0), error |-> "diverges"]
  ELSE set(file0, key, data)

ApiInit == HashInit

\* hash.set(key, data)
ApiSet(key, data) ==
  /\ adds < MaxApiOps
  /\ \E r \in {setCall(wordDic, key, data)} :
        /\ wordDic' = r.file
        /\ result' = HashCall("set", key, 0, data, r.error)
  /\ adds' = adds + 1
  /\ UNCHANGED <<pages, urlToPage, stopWords, rankWeights>>

\* hash.insertAt(key, index, buf)
ApiInsertAt(key, index, buf) ==
  /\ adds < MaxApiOps
  /\ \E r \in {insertAtCall(wordDic, key, index, buf)} :
        /\ wordDic' = r.file
        /\ result' = HashCall("insertAt", key, index, buf, r.error)
  /\ adds' = adds + 1
  /\ UNCHANGED <<pages, urlToPage, stopWords, rankWeights>>

\* hash.has(key)
ApiHas(key) ==
  /\ adds < MaxApiOps
  /\ \E file \in {getFileDescriptor(wordDic)} :
        /\ wordDic' = file
        /\ result' = HashCall("has", key, 0, <<>>,
                              IF getHashEntryMatchingKey(file, key).diverges THEN "diverges"
                              ELSE IF has(file, key) THEN "found" ELSE "absent")
  /\ adds' = adds + 1
  /\ UNCHANGED <<pages, urlToPage, stopWords, rankWeights>>

ApiNext ==
  \/ \E key \in ApiKeys, data \in {<<>>, spillPayload} : ApiSet(key, data)
  \/ \E key \in ApiKeys \ {longKey}, index \in {0, 1}, buf \in ApiPayloads :
        ApiInsertAt(key, index, buf)
  \/ \E key \in ApiKeys : ApiHas(key)

ApiSpec == ApiInit /\ [][ApiNext]_vars

\* an action of ApiSpec was taken
ApiStep(op) == adds' = adds + 1 /\ result'.op = op

\* ---- C21 ----
\* C21: insertAt on a key that was never set fails with KeyMissing and leaves
\* the header, the hash rows and the nodes as they were.
C21_InsertAtMissingKeyRejected ==
  [][(ApiStep("insertAt") /\ ~has(getFileDescriptor(wordDic), result'.key)) =>
       (result'.status = "KeyMissing" /\ wordDic' = getFileDescriptor(wordDic))]_vars

\* the first call on a new file was an insertAt, and it returned
C21_InsertedIntoUnsetKey ==
  /\ adds = 1
  /\ result.op = "insertAt"
  /\ result.status = "none"
  /\ wordDic # getFileDescriptor(<<>>)

\* ---- C22 ----
\* C22: insertAt on a key that is set, with a payload longer than the
\* nodeSize - 4 bytes a node holds, throws and leaves the file as it was.
C22_LongPayloadRejected ==
  [][(/\ ApiStep("insertAt")
      /\ has(getFileDescriptor(wordDic), result'.key)
      /\ Len(result'.buf) > nodeSize - 4) =>
       (result'.status # "none" /\ wordDic' = wordDic)]_vars

\* an insertAt with a payload of nodeSize - 3 bytes has returned on a key
\* that was set before
C22_LongPayloadWritten ==
  /\ adds = 2
  /\ result.op = "insertAt"
  /\ result.key = <<97, 98>>
  /\ result.buf = spillPayload
  /\ result.status = "none"
  /\ has(wordDic, <<97, 98>>)

\* ---- C23 ----
\* the rows of the file that are taken (head not 0) and hold key, zero-padded
\* to keySize bytes
rowsHolding(file, key) ==
  {row \in 0..(hashRows - 1) :
     /\ readUInt32BE(getHashEntryByIndex(file, row), keySize) # 0
     /\ SubSeq(getHashEntryByIndex(file, row), 1, keySize)
          = utf8Encode(key) \o Zeros(keySize - Len(utf8Encode(key)))}

\* C23: for every key of 1 .. keySize bytes, at most one row holds the key;
\* when a row holds it, the lookup of the key finds that row (has is true);
\* and the lookup of another key never ends on that row.
C23_WholeKeyMatch ==
  \A key \in ApiKeys \ {longKey} :
     \E file \in {getFileDescriptor(wordDic)} : \E rows \in {rowsHolding(file, key)} :
        /\ Cardinality(rows) <= 1
        /\ rows # {} => (has(file, key)
                         /\ getHashEntryMatchingKey(file, key).hashIndex \in rows)
        /\ \A other \in ApiKeys \ {key, longKey} :
              getHashEntryMatchingKey(file, other).hashIndex \notin rows

\* a key shorter than keySize - 4 bytes was set and has finds it
C23_ShortKeyFound ==
  /\ adds = 2
  /\ result = HashCall("has", <<97, 98>>, 0, <<>>, "found")
  /\ rowsHolding(wordDic, <<97, 98>>) # {}

(***************************************************************************)
(* Lookups on hash tables of every fill level, up to the table in which   *)
(* every row is taken by a key.                                            *)
(***************************************************************************)
MaxProbeOps == 2

\* hashRows + 1 keys of one letter: "a", "b", ...
fillKey(i) == <<96 + i>>
FillKeys == {fillKey(i) : i \in 1..(hashRows + 1)}

\* the number of rows of the file that are taken
rowsTaken(file) ==
  Cardinality({row \in 0..(hashRows - 1) :
                 readUInt32BE(getHashEntryByIndex(file, row), keySize) # 0})

ProbeCall(op, key, entry) ==
  [op |-> op, key |-> key,
   status |-> IF entry.diverges THEN "diverges" ELSE "returned",
   home |-> getHashIndexFromKey(key), probed |-> entry.probed]

ProbeInit == HashInit

\* hash.set(key) with the next of the keys "a", "b", ..., as long as no other
\* call was made and a row is vacant: the table is filled row by row
ProbeFill ==
  /\ adds = 0
  /\ rowsTaken(getFileDescriptor(wordDic)) < hashRows
  /\ wordDic' = set(wordDic, fillKey(rowsTaken(getFileDescriptor(wordDic)) + 1), <<>>).file
  /\ UNCHANGED <<pages, urlToPage, stopWords, rankWeights, adds, result>>

\* hash.has(key)
ProbeHas(key) ==
  /\ adds < MaxProbeOps
  /\ result' = ProbeCall("has", key, getHashEntryMatchingKey(getFileDescriptor(wordDic), key))
  /\ wordDic' = getFileDescriptor(wordDic)
  /\ adds' = adds + 1
  /\ UNCHANGED <<pages, urlToPage, stopWords, rankWeights>>

\* hash.get(key)
ProbeGet(key) ==
  /\ adds < MaxProbeOps
  /\ result' = ProbeCall("get", key, getHashEntryMatchingKey(getFileDescriptor(wordDic), key))
  /\ wordDic' = getFileDescriptor(wordDic)
  /\ adds' = adds + 1
  /\ UNCHANGED <<pages, urlToPage, stopWords, rankWeights>>

\* hash.getIterator(key), advanced to its end
ProbeIterate(key) ==
  /\ adds < MaxProbeOps
  /\ result' = ProbeCall("iter", key, getHashEntryMatchingKey(getFileDescriptor(wordDic), key))
  /\ wordDic' = getFileDescriptor(wordDic)
  /\ adds' = adds + 1
  /\ UNCHANGED <<pages, urlToPage, stopWords, rankWeights>>

\* hash.set(key)
ProbeSet(key) ==
  /\ adds < MaxProbeOps
  /\ result' = ProbeCall("set", key, getHashEntryMatchingKey(getFileDescriptor(wordDic), key))
  /\ wordDic' = setCall(wordDic, key, <<>>).file
  /\ adds' = adds + 1
  /\ UNCHANGED <<pages, urlToPage, stopWords, rankWeights>>

ProbeNext ==
  \/ ProbeFill
  \/ \E key \in FillKeys : ProbeHas(key)
  \/ \E key \in FillKeys : ProbeGet(key)
  \/ \E key \in FillKeys : ProbeIterate(key)
  \/ \E key \in FillKeys : ProbeSet(key)

ProbeSpec == ProbeInit /\ [][ProbeNext]_vars

\* a lookup was made
Probed == result.op \in {"has", "get", "iter", "set"}

\* ---- C24 ----
\* C24: the c-th row a lookup reads (c = 0, 1, 2, ...) is row
\* (h + c * c) mod hashRows, h being the home row of the key.
C24_QuadraticProbing ==
  Probed =>
    \A n \in DOMAIN result.probed :
       result.probed[n] = (result.home + (n - 1) * (n - 1)) % hashRows

\* a lookup met one taken row and read the row after the home row next
C24_SecondProbe ==
  /\ Probed
  /\ result.status = "returned"
  /\ Len(result.probed) = 2
  /\ result.probed = <<result.home, (result.home + 1) % hashRows>>

\* ---- C25 ----
\* every row of the file is taken and none holds key
everyRowTakenByOthers(file, key) ==
  rowsTaken(file) = hashRows /\ rowsHolding(file, key) = {}

\* a lookup made by set, has, get or the iterator was the last step
ProbeStep == adds' = adds + 1 /\ result'.op \in {"has", "get", "iter", "set"}

\* C25: every lookup returns or throws after finitely many probes, and when
\* every row is taken by a key other than the one looked up it reports
\* BucketFull.
C25_LookupTerminates ==
  [][ProbeStep =>
       /\ result'.status # "diverges"
       /\ everyRowTakenByOthers(getFileDescriptor(wordDic), result'.key)
            => result'.status = "BucketFull"]_vars

\* a lookup in a table with no vacant row returned, having found its key
\* after a collision
C25_FoundInFullTable ==
  /\ Probed
  /\ rowsTaken(wordDic) = hashRows
  /\ result.status = "returned"
  /\ Len(result.probed) >= 2
  /\ rowsHolding(wordDic, result.key) # {}

\* ---- C26 ----
\* the offset of the first node slot
nodeAreaStart == headerSize + hashRows * hashRowSize

\* offset is the offset of a node that was handed out: in the node area,
\* below the free pointer, on a node boundary
allocatedNode(file, offset) ==
  /\ offset >= nodeAreaStart
  /\ offset < getFreeNodeOffset(file)
  /\ (offset - nodeAreaStart) % nodeSize = 0

\* the offsets met from head by following the next fields (as many of them
\* as the file has room for nodes, when the fields close a cycle)
chainFrom(file, head) ==
  With(iterateFrom(file, head, 0, TRUE, Len(file) \div nodeSize), LAMBDA items :
    Tuple([n \in DOMAIN items |-> items[n].offset]))

\* the head and tail fields of a hash row
rowHead(file, row) == readUInt32BE(getHashEntryByIndex(file, row), keySize)
rowTail(file, row) == readUInt32BE(getHashEntryByIndex(file, row), keySize + 4)

\* the list of the row is well formed
wellFormedRow(file, row) ==
  \E chain \in {chainFrom(file, rowHead(file, row))} :
     /\ \A n \in DOMAIN chain : allocatedNode(file, chain[n])
     /\ \A m, n \in DOMAIN chain : m # n => chain[m] # chain[n]
     /\ readUInt32BE(getNode(file, chain[Len(chain)]), nodeSize - 4) = 0
     /\ rowTail(file, row) = chain[Len(chain)]

\* C26: after every completed set, insertAt or append on keys that are set,
\* in every taken hash row head is the offset of an allocated node, the next
\* fields lead from it through distinct allocated nodes to a node whose next
\* is 0, and tail is the offset of that node.
C26_ListsWellFormed ==
  \A row \in 0..(hashRows - 1) :
     rowHead(wordDic, row) # 0 => wellFormedRow(wordDic, row)

\* a list of three nodes and more, built by insertAt and append, whose head is
\* not the first node allocated for it
C26_LongList ==
  /\ result.op \in {"insertAt", "append"}
  /\ \E row \in 0..(hashRows - 1) :
        /\ rowHead(wordDic, row) # 0
        /\ Len(chainFrom(wordDic, rowHead(wordDic, row))) >= 3
        /\ rowHead(wordDic, row) > rowTail(wordDic, row)
        /\ wellFormedRow(wordDic, row)

\* ---- C27 ----
\* C27: no call lowers the header free pointer, and every insertAt that
\* returns leaves the pointer past the node it was handed (the old free
\* offset), so that no later allocation is handed that offset again.
C27_AllocationsFresh ==
  [][adds' = adds + 1 =>
       \E before \in {getFreeNodeOffset(getFileDescriptor(wordDic))} :
          /\ getFreeNodeOffset(wordDic') >= before
          /\ (result'.op = "insertAt" /\ result'.status = "none")
               => getFreeNodeOffset(wordDic') >= before + nodeSize]_vars

\* two calls have each been handed a node and the free pointer stands two
\* nodes past the start of the node area
C27_TwoAllocations ==
  /\ adds = 2
  /\ result.op = "insertAt"
  /\ result.status = "none"
  /\ getFreeNodeOffset(wordDic) = headerSize + hashRows * hashRowSize + 2 * nodeSize

\* ---- C30 ----
\* C30: a set that throws, because the key is longer than keySize bytes or
\* the data longer than nodeSize - 4 bytes, leaves the file as it was.
C30_FailedSetChangesNothing ==
  [][(ApiStep("set") /\ result'.status \in {"KeyTooLarge", "DataTooLarge"}) =>
       wordDic' = getFileDescriptor(wordDic)]_vars

\* a set with too much data threw on a key that has its row, and one node
\* only was ever handed out
C30_FailedSetOfKnownKey ==
  /\ adds = 2
  /\ result.op = "set"
  /\ result.status = "DataTooLarge"
  /\ has(wordDic, result.key)
  /\ getFreeNodeOffset(wordDic) = nodeAreaStart + nodeSize

(***************************************************************************)
(* The calls of Hash write by write.  A call on a key is a sequence of     *)
(* fs.write calls with reads in between; execution can stop between any    *)
(* two of them.  A write is [position, data, kind], kind naming what is     *)
(* written: "free" (the header free pointer), "row" (a whole hash row),     *)
(* "head" / "tail" (one field of a row) or "node" (payload and next).       *)
(***************************************************************************)
MaxWriteOps == 3

Write(position, data, kind) == [position |-> position, data |-> data, kind |-> kind]

\* getAndIncreateFreeNodeOffset: the write of writeFreeNodeOffset
reserveWrite(file) == Write(0, toBEInt32(getFreeNodeOffset(file) + nodeSize), "free")

\* Hash.set(key) for a key without a row: free pointer, hash row, node
setWrites(file, key, data) ==
  LET entry == getHashEntryMatchingKey(file, key)
      headOffset == IF entry.headOffset > 0 THEN entry.headOffset ELSE getFreeNodeOffset(file)
      keyBuf == utf8Encode(key)
  IN (IF entry.headOffset > 0 THEN <<>> ELSE <<reserveWrite(file)>>)
     \o << Write(getHashOffset(entry.hashIndex),
                 keyBuf \o Zeros(keySize - Len(keyBuf))
                   \o toBEInt32(headOffset) \o toBEInt32(headOffset), "row"),
           Write(headOffset, data \o Zeros(nodeSize - Len(data)) \o toBEInt32(0), "node") >>

\* insertFirst with the node written before the free pointer is advanced
insertFirstNodeFirst(file, key, buf) ==
  LET entry == getHashEntryMatchingKey(file, key)
      nextNodeOffset == getFreeNodeOffset(file)
  IN << Write(nextNodeOffset, buf \o toBEInt32(entry.headOffset), "node"),
        reserveWrite(file),
        Write(getHashOffset(entry.hashIndex) + keySize, toBEInt32(nextNodeOffset), "head") >>

\* Hash.insertFirst: free pointer, new node, head field of the row
insertFirstWrites(file, key, buf) ==
  LET entry == getHashEntryMatchingKey(file, key)
      nextNodeOffset == getFreeNodeOffset(file)
  IN << reserveWrite(file),
        Write(nextNodeOffset, buf \o toBEInt32(entry.headOffset), "node"),
        Write(getHashOffset(entry.hashIndex) + keySize, toBEInt32(nextNodeOffset), "head") >>

\* Hash.insertAt: free pointer, then the writes of insertFirst when there is
\* no previous node, else the new node and the previous node
insertAtWrites(file, key, index, buf) ==
  LET headData == getNode(file, getHashEntryMatchingKey(file, key).headOffset)
      alloc == getAndIncreateFreeNodeOffset(file)
      items == getIterator(alloc.file, key, TRUE)
      moved == IF Len(items) - 1 < index THEN Len(items) - 1 ELSE index
      previous == IF moved = 1
                  THEN [items[1] EXCEPT !.buffer = SubSeq(headData, 1, nodeSize - 4)]
                  ELSE items[moved]
      current == items[moved + 1]
  IN IF index = 0 THEN insertFirstWrites(file, key, buf)
     ELSE IF moved < 1 THEN <<reserveWrite(file)>> \o insertFirstWrites(alloc.file, key, buf)
     ELSE << reserveWrite(file),
             Write(alloc.offset, buf \o toBEInt32(current.offset), "node"),
             Write(previous.offset, previous.buffer \o toBEInt32(alloc.offset), "node") >>

\* the write function of Hash.appendIterator: free pointer, the node at the
\* tail (writeNode and fs.write put the same bytes there), tail field
appendWrites(file, key, buf) ==
  LET entry == getHashEntryMatchingKey(file, key)
      nextNodeOffset == getFreeNodeOffset(file)
  IN << reserveWrite(file),
        Write(entry.tailOffset, buf \o toBEInt32(nextNodeOffset), "node"),
        Write(getHashOffset(entry.hashIndex) + keySize + 4, toBEInt32(nextNodeOffset), "tail") >>

\* the node offsets a sequence of writes reserves
reservedBy(file, writes) ==
  {getFreeNodeOffset(file) + (n - 1) * nodeSize :
     n \in 1..Cardinality({k \in DOMAIN writes : writes[k].kind = "free"})}

WriteCall(op, key, index, buf, file, writes) ==
  [op |-> op, key |-> key, index |-> index, buf |-> buf,
   pending |-> writes, written |-> <<>>, reserved |-> reservedBy(file, writes)]

\* no call is under way
Idle == IF result.op = "none" THEN TRUE ELSE result.pending = <<>>

WriteInit == HashInit

\* hash.set(key) is called for a key that is not set, and runs up to its
\* first write
BeginSet(key) ==
  /\ Idle /\ adds < MaxWriteOps
  /\ \E file \in {getFileDescriptor(wordDic)} :
        /\ ~has(file, key)
        /\ wordDic' = file
        /\ result' = WriteCall("set", key, 0, <<>>, file, setWrites(file, key, <<>>))
  /\ adds' = adds + 1
  /\ UNCHANGED <<pages, urlToPage, stopWords, rankWeights>>

\* hash.insertAt(key, index, buf) is called for a key that is set
BeginInsertAt(key, index, buf) ==
  /\ Idle /\ adds < MaxWriteOps
  /\ has(getFileDescriptor(wordDic), key)
  /\ result' = WriteCall("insertAt", key, index, buf, wordDic,
                         insertAtWrites(wordDic, key, index, buf))
  /\ adds' = adds + 1
  /\ UNCHANGED <<wordDic, pages, urlToPage, stopWords, rankWeights>>

\* the write function of hash.appendIterator(key) is called for a key that
\* is set
BeginAppend(key, buf) ==
  /\ Idle /\ adds < MaxWriteOps
  /\ has(getFileDescriptor(wordDic), key)
  /\ result' = WriteCall("append", key, 0, buf, wordDic, appendWrites(wordDic, key, buf))
  /\ adds' = adds + 1
  /\ UNCHANGED <<wordDic, pages, urlToPage, stopWords, rankWeights>>

\* the call under way makes its next fs.write
DoWrite ==
  /\ ~Idle
  /\ wordDic' = writeFile(wordDic, Head(result.pending).position, Head(result.pending).data)
  /\ result' = [result EXCEPT !.pending = Tail(@),
                               !.written = Append(@, Head(result.pending))]
  /\ UNCHANGED <<pages, urlToPage, stopWords, rankWeights, adds>>

WriteNext ==
  \/ \E key \in HashKeys : BeginSet(key)
  \/ \E key \in HashKeys, index \in InsertIndices, buf \in {toBEInt32(1)} :
        BeginInsertAt(key, index, buf)
  \/ \E key \in HashKeys, buf \in {toBEInt32(1)} : BeginAppend(key, buf)
  \/ DoWrite

WriteSpec == WriteInit /\ [][WriteNext]_vars


\* a call is under way or has run
InCall == result.op \in {"set", "insertAt", "append"}

\* the write w puts bytes into the node at offset r, or stores r as a head,
\* tail or next pointer
touches(w, r) ==
  /\ w.kind # "free"
  /\ \/ w.position = r
     \/ SubSeq(w.data, Len(w.data) - 3, Len(w.data)) = toBEInt32(r)

nodeWritePending(r) ==
  \E k \in DOMAIN result.pending :
     result.pending[k].kind = "node" /\ result.pending[k].position = r

nodeWritten(r) ==
  \E k \in DOMAIN result.written :
     result.written[k].kind = "node" /\ result.written[k].position = r

\* C28 (as stated): in a node-allocating call (set of a new key, insertAt,
\* append) the bytes of the new node are written before the header free
\* pointer is advanced past the node: in no state has the free pointer
\* passed a node the call reserved while the write of that node's bytes is
\* still to come.
C28_NodeWrittenBeforeFreePointer ==
  InCall =>
    \A r \in result.reserved :
       getFreeNodeOffset(wordDic) > r => ~nodeWritePending(r)

\* C28 (amended): the call advances the free pointer first: once any write
\* of the call has put bytes into a node it reserved, or stored a pointer to
\* it, the header free pointer is already past that node.
C28_FreePointerAdvancedFirst ==
  InCall =>
    \A r \in result.reserved :
       (\E k \in DOMAIN result.written : touches(result.written[k], r))
         => getFreeNodeOffset(wordDic) >= r + nodeSize

\* C28 witness: an insertAt has written the bytes of the node it reserved and
\* still has its pointer write to make.
C28_NodeWrittenMidCall ==
  /\ result.op = "insertAt"
  /\ result.pending # <<>>
  /\ \E r \in result.reserved : nodeWritten(r)


\* the file holds the bytes of the node at offset
bytesWritten(file, offset) == offset + nodeSize <= Len(file)

\* C29: in every state between two file writes of set, insertAt or append
\* (and after the last), every non-zero head and tail of a hash row and every
\* non-zero next of a node met from the head is the offset of a node whose
\* bytes are in the file.
C29_NoDanglingPointer ==
  \A row \in 0..(hashRows - 1) :
     rowHead(wordDic, row) # 0 =>
       /\ \A offset \in Range(chainFrom(wordDic, rowHead(wordDic, row))) :
             bytesWritten(wordDic, offset)
       /\ rowTail(wordDic, row) # 0 => bytesWritten(wordDic, rowTail(wordDic, row))

\* C29 witness: a set has written the hash row of its key and has the node
\* the row points to still to write.
C29_RowWrittenBeforeNode ==
  /\ result.op = "set"
  /\ \E k \in DOMAIN result.written : result.written[k].kind = "row"
  /\ \E r \in result.reserved : nodeWritePending(r)


(***************************************************************************)
(* Engine.search on a second corpus: an engine with rank weights and no    *)
(* stop-word list, a page whose title has eleven words, urls that hold a   *)
(* query word inside a longer token, and queries with a quote mark that is *)
(* never closed.  g=103.                                                   *)
(***************************************************************************)
MaxQueryAdds == 2

QueryDocuments ==
  << [title |-> <<120, Space, 120, Space, 99, 100, Space, 120, Space, 120, Space, 120,
                  Space, 120, Space, 120, Space, 120, Space, 120, Space, 97, 98>>,
      text |-> <<100, 99>>, url |-> <<47, 100, 99>>],
     [title |-> <<97, 98>>, text |-> <<101, 102, Space, 99, 100>>,
      url |-> <<47, 101, 102, 103>>] >>

QueryTexts ==
  << <<97, 98, Space, Quote, 99, 100, Space, 101, 102>>,
     <<97, 98, Space, 99, 100, Space, Quote>>,
     <<Quote, 97, 98, Space, 101, 102, Quote, Space, 99, 100, Space, Quote>>,
     <<97, 98, Space, 99, 100>>,
     <<67, 68>>,
     <<100, 99>>,
     <<101, 102>>,
     <<101, 102, Space, Quote, 97, 98, Quote, Space, 99, 100>> >>

QueryInit ==
  /\ wordDic = <<>>
  /\ pages = <<>>
  /\ urlToPage = <<>>
  /\ stopWords = {}
  /\ rankWeights = Configs[2].rankWeights
  /\ adds = 0
  /\ result = NoCall

\* engine.add({title, text, url, rank}) run to completion
QueryAdd(doc, rank) ==
  /\ adds < MaxQueryAdds
  /\ ~addDiverges(wordDic, stopWords, QueryDocuments[doc].title, QueryDocuments[doc].text)
  /\ \E r \in {add(wordDic, pages, urlToPage, stopWords, QueryDocuments[doc].title,
                   QueryDocuments[doc].text, QueryDocuments[doc].url, rank)} :
        /\ wordDic' = r.file
        /\ pages' = r.pages
        /\ urlToPage' = r.urls
        /\ result' = [NoCall EXCEPT !.op = "add", !.status = r.status, !.doc = doc,
                                    !.rank = rank, !.seed = r.seed]
  /\ adds' = adds + 1
  /\ UNCHANGED <<stopWords, rankWeights>>

\* engine.search(text) run to completion
QuerySearch(query) ==
  \E r \in {search(wordDic, pages, stopWords, rankWeights, QueryTexts[query], 100)} :
     /\ wordDic' = r.file
     /\ result' = [NoCall EXCEPT !.op = "search", !.status = r.status, !.query = query,
                                 !.maxCount = 100, !.hits = r.hits]
     /\ UNCHANGED <<pages, urlToPage, stopWords, rankWeights, adds>>

QueryNext ==
  \/ \E doc \in DOMAIN QueryDocuments, rank \in Ranks : QueryAdd(doc, rank)
  \/ \E query \in DOMAIN QueryTexts : QuerySearch(query)

QuerySpec == QueryInit /\ [][QueryNext]_vars


\* the last call was a search of QueryTexts that returned
QuerySearched == result.op = "search" /\ result.status = "ok"

\* the text without its last quote mark
withoutLastQuote(text) ==
  LET last == SetMax({i \in DOMAIN text : text[i] = Quote})
  IN SubSeq(text, 1, last - 1) \o SubSeq(text, last + 1, Len(text))

\* the query has a quote mark that is never closed
unclosedQuote(text) == Len(toWords(text, FALSE).quotes) % 2 = 1

\* C31: a query with an odd number of quote marks is answered as the same
\* query without its last quote mark: the same pages in the same order, with
\* the same introductions.
C31_UnpairedQuoteIgnored ==
  (QuerySearched /\ unclosedQuote(QueryTexts[result.query])) =>
     result.hits = search(wordDic, pages, stopWords, rankWeights,
                          withoutLastQuote(QueryTexts[result.query]), 100).hits

\* C31 witness: a query with an unclosed quote was searched in an index that
\* holds a page for the query without that quote mark
C31_UnclosedQuoteSearched ==
  /\ QuerySearched /\ unclosedQuote(QueryTexts[result.query])
  /\ search(wordDic, pages, stopWords, rankWeights,
            withoutLastQuote(QueryTexts[result.query]), 100).hits # <<>>


\* the places (1-based) of the query words that stand outside every quoted
\* range, an unclosed quote quoting nothing
placesOutsideQuotes(words, quotes) ==
  {k \in DOMAIN words :
     \A i \in 1..(Len(quotes) \div 2) : ~(quotes[2 * i - 1] < k /\ k <= quotes[2 * i])}

\* the positions on the page of the query words outside every quoted range
positionsOutsideQuotes(words, quotes, page) ==
  {p \in 0..(Len(page.words) - 1) :
     \E k \in placesOutsideQuotes(words, quotes) :
        toLowerCase(page.words[p + 1]) = toLowerCase(words[k])}

\* C32: for every returned page, the positions snippet construction takes for
\* the unquoted words are the page's positions of exactly the query words
\* outside all quoted ranges.
C32_FreeSetIsUnquotedTerms ==
  QuerySearched =>
    \A n \in DOMAIN result.hits :
       LET tokens == toWords(QueryTexts[result.query], FALSE)
           page == pages[result.hits[n].pageId]
       IN Range(unquotedIndices(tokens.words, tokens.quotes, page))
            = positionsOutsideQuotes(tokens.words, tokens.quotes, page)

\* C32 witness: a page was returned for a query whose phrase does not start
\* the query and is followed by an unquoted word
C32_PhraseInTheMiddle ==
  /\ QuerySearched /\ result.hits # <<>>
  /\ LET tokens == toWords(QueryTexts[result.query], FALSE)
     IN /\ Len(tokens.quotes) = 2
        /\ tokens.quotes[1] > 0
        /\ tokens.quotes[2] < Len(tokens.words)


\* the words of the searched query that search ranks with
rankedWords == SelectSeq(toWords(QueryTexts[result.query], FALSE).words,
                         LAMBDA word : ~isStopWord(stopWords, word))

\* the positions (0-based) of the title's tokens that equal a query word,
\* letter case ignored
titlePositions(words, page) ==
  LET titleWords == toWords(page.title, FALSE).words
  IN {i - 1 : i \in {j \in DOMAIN titleWords :
                       \E k \in DOMAIN words :
                          toLowerCase(titleWords[j]) = toLowerCase(words[k])}}

\* the part of the score that the url does not give
titleScore(words, page) ==
  getScore(rankWeights, words, page)
    - (IF urlMatch(words, page.url) THEN rankWeights[1].urlContains ELSE 0)

\* C33: with weights configured, a returned page that is neither an exact
\* title match nor a title-begins match gets the titleContainsInBeginning
\* weight exactly when the smallest position of a title token equal to a
\* query word, letter case ignored, is below 3.
C33_TitleContainsInBeginning ==
  QuerySearched =>
    \A n \in DOMAIN result.hits :
       LET page == pages[result.hits[n].pageId]
           t == titleEqual(rankedWords, page)
           P == titlePositions(rankedWords, page)
       IN (~t.exact /\ ~t.begins) =>
            titleScore(rankedWords, page)
              = IF P # {} /\ SetMin(P) < 3
                THEN rankWeights[1].titleContainsInBeginning ELSE 0

\* C33 witness: a returned page, no exact and no begins match, whose title has
\* more than ten tokens and holds a query word at a position below 3
C33_LongTitle ==
  /\ QuerySearched
  /\ \E n \in DOMAIN result.hits :
        LET page == pages[result.hits[n].pageId]
            t == titleEqual(rankedWords, page)
            P == titlePositions(rankedWords, page)
        IN /\ ~t.exact /\ ~t.begins
           /\ Len(toWords(page.title, FALSE).words) > 10
           /\ P # {} /\ SetMin(P) < 3


\* word stands in url as a whole token, letter case ignored: no letter or
\* digit directly before or after it
wholeTokenInUrl(word, url) ==
  \E p \in 1..(Len(url) - Len(word) + 1) :
     /\ \A j \in DOMAIN word : lowerChar(url[p + j - 1]) = lowerChar(word[j])
     /\ p = 1 \/ ~isLetterOrDigit(url[p - 1])
     /\ p + Len(word) > Len(url) \/ ~isLetterOrDigit(url[p + Len(word)])

\* the part of the score that the title does not give
urlScore(words, page) ==
  LET t == titleEqual(words, page)
  IN getScore(rankWeights, words, page)
       - (IF t.exact THEN rankWeights[1].titleExactMatch
          ELSE IF t.begins THEN rankWeights[1].titleBegins
          ELSE IF t.pos # <<>> /\ t.pos[1] < 3 THEN rankWeights[1].titleContainsInBeginning
          ELSE 0)

\* C34: with weights configured, a returned page gets the urlContains weight
\* exactly when every non-stop query word stands in the page's url as a whole
\* token, letter case ignored.
C34_UrlContains ==
  QuerySearched =>
    \A n \in DOMAIN result.hits :
       LET page == pages[result.hits[n].pageId]
       IN urlScore(rankedWords, page)
            = IF \A k \in DOMAIN rankedWords : wholeTokenInUrl(rankedWords[k], page.url)
              THEN rankWeights[1].urlContains ELSE 0

\* C34 witness: a returned page whose url holds the query's one word, which
\* begins with the letter d, as a whole token
C34_WordBeginningWithD ==
  /\ QuerySearched
  /\ Len(rankedWords) = 1 /\ rankedWords[1][1] = 100
  /\ \E n \in DOMAIN result.hits :
        wholeTokenInUrl(rankedWords[1], pages[result.hits[n].pageId].url)


(***************************************************************************)
(* BinaryFileStorage: the constructor's options.                           *)
(***************************************************************************)
\* new BinaryFileStorage({indexPath, wordSizeBytes: 32, uniqueWords}): the
\* constructor reads uniqueWords only (keySize and hashRows above)
wordSizeBytes == 32

\* the last call was an add that got as far as its words
AddedWords == result.op = "add" /\ result.status \in {"ok", "KeyTooLarge"}

\* the words the last add had to index
addedWords ==
  wordsToAdd(stopWords, toWords(Documents[result.doc].title \o <<Space>>
                                  \o Documents[result.doc].text, FALSE).words)

\* C35: with a storage constructed with wordSizeBytes = W, an add fails with
\* the key-too-long error exactly when one of the document's non-stop words
\* is longer than W bytes.
C35_KeySizeIsWordSizeBytes ==
  AddedWords =>
    (result.status = "KeyTooLarge"
       <=> \E i \in DOMAIN addedWords : Len(utf8Encode(addedWords[i])) > wordSizeBytes)

\* C35 witness: a document was added whose longest non-stop word has more
\* bytes than uniqueWords and no more than wordSizeBytes
C35_WordWithinWordSize ==
  /\ AddedWords
  /\ \E i \in DOMAIN addedWords : Len(utf8Encode(addedWords[i])) > UniqueWords
  /\ \A i \in DOMAIN addedWords : Len(utf8Encode(addedWords[i])) <= wordSizeBytes


\* the header free pointer of the file, created if it is not there yet
freePointer(file) == getFreeNodeOffset(getFileDescriptor(file))

\* C37: every successful set of a new key, every insertAt at any position and
\* every append advances the header free pointer by exactly nodeSize (payload
\* and next pointer) bytes; a set of a key that is set leaves it alone.
C37_OneNodePerAllocation ==
  [][/\ (HashStep("set") /\ result'.status = "none") =>
          freePointer(wordDic')
            = freePointer(wordDic)
                + (IF has(getFileDescriptor(wordDic), result'.key) THEN 0 ELSE nodeSize)
     /\ (\E op \in {"insertAt", "insertSorted", "append"} :
            HashStep(op) /\ result'.status = "none") =>
          freePointer(wordDic') = freePointer(wordDic) + nodeSize]_vars

\* C37 witness: insertAt was called with a position above 0 on a list that
\* had no elements, and the list now has one
C37_InsertedBehindNothing ==
  /\ result.op = "insertAt"
  /\ result.index > 0
  /\ hashList(wordDic, result.key) = <<result.buf>>


(***************************************************************************)
(* Hash.fnv32a on keys of ASCII and non-ASCII letters: a=97 b=98, and the  *)
(* letters the tokenizer keeps besides \w: a-ring=229 a-umlaut=228         *)
(* o-umlaut=246 (UTF-16 code units, as a JavaScript string holds them).    *)
(***************************************************************************)
MaxKeyLen == 3

FnvKeys == UNION {[1..n -> {97, 98, 228, 229, 246}] : n \in 0..MaxKeyLen}

FnvInit == HashInit

\* this.fnv32a(key), as getHashIndexFromKey calls it
HashKey(key) ==
  /\ result' = [op |-> "fnv32a", key |-> key, hash |-> fnv32a(key)]
  /\ UNCHANGED <<wordDic, pages, urlToPage, stopWords, rankWeights, adds>>

FnvNext == \E key \in FnvKeys : HashKey(key)

FnvSpec == FnvInit /\ [][FnvNext]_vars

\* 32-bit FNV-1a of a byte string, values as <<high 16 bits, low 16 bits>>:
\* offset basis 0x811C9DC5, prime 0x01000193, h := (h xor byte) * prime
\* modulo 2^32 for every byte
fnvOffsetBasis == <<33052, 40389>>

timesFnvPrime(h) ==
  LET low == h[2] * 403
  IN <<(h[1] * 403 + h[2] * 256 + low \div 65536) % 65536, low % 65536>>

RECURSIVE fnv1a32(_, _)
fnv1a32(h, bytes) ==
  IF bytes = <<>> THEN h
  ELSE fnv1a32(timesFnvPrime(<<h[1], BitXor(h[2], Head(bytes))>>), Tail(bytes))

\* C38: the hash of a key is the 32-bit FNV-1a hash of the key's bytes, the
\* bytes being those of the key as it is stored (UTF-8).
C38_HashIsFnv1aOfBytes ==
  result.op = "fnv32a" =>
    result.hash = fnv1a32(fnvOffsetBasis, utf8Encode(result.key))

\* C38 witness: a key holding a non-ASCII letter was hashed
C38_NonAsciiKeyHashed ==
  /\ result.op = "fnv32a"
  /\ \E i \in DOMAIN result.key : result.key[i] > 127


(***************************************************************************)
(* Two calls of Hash in flight at once.  Every fs.read and fs.write is     *)
(* awaited, so a second call can run between any two of them.  A call is   *)
(* [op, key, buf, pc, hashIndex, headOffset, tailOffset, offset]: pc is    *)
(* the file access the call makes next, the other fields are its local     *)
(* variables.  A bucket lookup runs as one step.                           *)
(***************************************************************************)
RaceCalls == {1, 2}

NotBegun ==
  [op |-> "none", key |-> <<>>, buf |-> <<>>, pc |-> "idle",
   hashIndex |-> 0, headOffset |-> 0, tailOffset |-> 0, offset |-> 0]

RaceInit == HashInit

\* hash.set(key), alone and run to its end, before the two calls are made
RacePrepare(key) ==
  /\ result.op = "none"
  /\ ~has(getFileDescriptor(wordDic), key)
  /\ wordDic' = set(wordDic, key, <<>>).file
  /\ UNCHANGED <<pages, urlToPage, stopWords, rankWeights, adds, result>>

\* call p is made: set for a key that is not set, insertAt(key, 0, buf) or
\* the write function of appendIterator(key) for a key that is set
RaceBegin(p, op, key) ==
  /\ adds = p - 1
  /\ has(getFileDescriptor(wordDic), key) <=> op # "set"
  /\ result' = [op |-> "race",
                start |-> IF p = 1 THEN wordDic ELSE result.start,
                calls |-> [q \in RaceCalls |->
                             IF q = p
                             THEN [NotBegun EXCEPT !.op = op, !.key = key,
                                                   !.buf = toBEInt32(p), !.pc = "lookup"]
                             ELSE IF p = 1 THEN NotBegun ELSE result.calls[q]]]
  /\ adds' = p
  /\ UNCHANGED <<wordDic, pages, urlToPage, stopWords, rankWeights>>

\* getHashEntryMatchingKey(key) of call p; a set that finds the key set
\* reserves no node
RaceLookup(p) ==
  /\ result.op = "race" /\ result.calls[p].pc = "lookup"
  /\ \E entry \in {getHashEntryMatchingKey(getFileDescriptor(wordDic), result.calls[p].key)} :
        result' = [result EXCEPT
                     !.calls[p].hashIndex = entry.hashIndex,
                     !.calls[p].headOffset = entry.headOffset,
                     !.calls[p].tailOffset = entry.tailOffset,
                     !.calls[p].pc = IF result.calls[p].op = "set" /\ entry.headOffset > 0
                                     THEN "write1" ELSE "readFree"]
  /\ wordDic' = getFileDescriptor(wordDic)
  /\ UNCHANGED <<pages, urlToPage, stopWords, rankWeights, adds>>

\* getFreeNodeOffset() of call p
RaceReadFree(p) ==
  /\ result.op = "race" /\ result.calls[p].pc = "readFree"
  /\ result' = [result EXCEPT !.calls[p].offset = getFreeNodeOffset(wordDic),
                              !.calls[p].pc = "writeFree"]
  /\ UNCHANGED <<wordDic, pages, urlToPage, stopWords, rankWeights, adds>>

\* writeFreeNodeOffset(offset + nodeSize) of call p
RaceWriteFree(p) ==
  /\ result.op = "race" /\ result.calls[p].pc = "writeFree"
  /\ wordDic' = writeFreeNodeOffset(wordDic, result.calls[p].offset + nodeSize)
  /\ result' = [result EXCEPT !.calls[p].pc = "write1"]
  /\ UNCHANGED <<pages, urlToPage, stopWords, rankWeights, adds>>

\* the two writes that follow: set writes the hash row and then the node,
\* insertFirst the node and then the head field, append the node at the tail
\* and then the tail field
RaceWrite(p) ==
  /\ result.op = "race" /\ result.calls[p].pc \in {"write1", "write2"}
  /\ LET c == result.calls[p]
         first == c.pc = "write1"
         node == IF c.op = "set" /\ c.headOffset > 0 THEN c.headOffset ELSE c.offset
         keyBuf == utf8Encode(c.key)
     IN wordDic' =
          IF c.op = "set"
          THEN IF first
               THEN writeFile(wordDic, getHashOffset(c.hashIndex),
                              keyBuf \o Zeros(keySize - Len(keyBuf))
                                \o toBEInt32(node) \o toBEInt32(node))
               ELSE writeNode(wordDic, node, Zeros(nodeSize), 0)
          ELSE IF c.op = "insertAt"
          THEN IF first
               THEN writeNode(wordDic, c.offset, c.buf, c.headOffset)
               ELSE writeHashEntryHeadOffset(wordDic, c.key, c.offset)
          ELSE IF first
               THEN writeNode(wordDic, c.tailOffset, c.buf, c.offset)
               ELSE writeFile(wordDic, getHashOffset(c.hashIndex) + keySize + 4,
                              toBEInt32(c.offset))
  /\ result' = [result EXCEPT !.calls[p].pc = IF @ = "write1" THEN "write2" ELSE "done"]
  /\ UNCHANGED <<pages, urlToPage, stopWords, rankWeights, adds>>

RaceNext ==
  \/ \E key \in HashKeys : RacePrepare(key)
  \/ \E p \in RaceCalls, op \in {"set", "insertAt", "append"}, key \in HashKeys :
        RaceBegin(p, op, key)
  \/ \E p \in RaceCalls : RaceLookup(p)
  \/ \E p \in RaceCalls : RaceReadFree(p)
  \/ \E p \in RaceCalls : RaceWriteFree(p)
  \/ \E p \in RaceCalls : RaceWrite(p)

RaceSpec == RaceInit /\ [][RaceNext]_vars


\* the file after call c ran alone, from its first to its last file access
ranAlone(file, c) ==
  IF c.op = "set" THEN set(file, c.key, <<>>).file
  ELSE IF c.op = "insertAt" THEN insertAt(file, c.key, 0, c.buf)
  ELSE append(file, c.key, c.buf).file

\* both calls were made and have made their last write
BothDone == result.op = "race" /\ \A p \in RaceCalls : result.calls[p].pc = "done"

\* call p has been handed a node offset
reservedNode(p) ==
  /\ result.calls[p].pc \in {"writeFree", "write1", "write2", "done"}
  /\ result.calls[p].offset > 0

\* C36: two node-allocating calls that run interleaved at their file accesses
\* are never handed the same node offset, and no write of either is lost: the
\* file they leave is the file they leave when they run one after the other.
C36_InterleavedCallsKeepUpdates ==
  /\ (result.op = "race" /\ reservedNode(1) /\ reservedNode(2))
       => result.calls[1].offset # result.calls[2].offset
  /\ BothDone =>
       \/ wordDic = ranAlone(ranAlone(result.start, result.calls[1]), result.calls[2])
       \/ wordDic = ranAlone(ranAlone(result.start, result.calls[2]), result.calls[1])

\* C36 witness: two calls on different keys ran interleaved and have both made
\* their last write: each reserved a node, and the second read the free
\* pointer before the first had advanced it
C36_BothCallsInterleaved ==
  /\ BothDone
  /\ result.calls[1].key # result.calls[2].key
  /\ result.calls[1].offset > 0 /\ result.calls[2].offset > 0
  /\ getFreeNodeOffset(wordDic) < getFreeNodeOffset(getFileDescriptor(result.start)) + 2 * nodeSize

====
